---- MODULE Spec2Model ----
(***************************************************************************)
(* A model of risp: the instruction encoding (shared/src/instruction.rs),  *)
(* the VM interpreter (vm/src/vm.rs), the variable stack and the code      *)
(* generator (risp/src/variable_stack.rs, risp/src/codegen.rs), the        *)
(* container format (shared/src/fileformat.rs) and the assembler           *)
(* (asm/src/assembler.rs).                                                 *)
(*                                                                         *)
(* A machine word (Rust usize, 64 bits) is a tuple of 8 bytes, most        *)
(* significant first, so that shifts by 32 bits and wrap-around at 2^64    *)
(* are exact.                                                              *)
(***************************************************************************)
EXTENDS Integers, Sequences, FiniteSets, TLC

VARIABLES
    program,          \* VM.program: the word vector
    pc,               \* VM.pc (a word)
    stack,            \* VM.stack: the operand stack, top last
    call_stack,       \* VM.call_stack: return addresses, top last
    register,         \* VM.register: 10 words
    output,           \* the values println! has written, in order
    status,           \* "running", "stopped" (step returned false), "panic"
    steps,            \* instructions dispatched so far (run_max's steps)
    overflow_checks,  \* the build: TRUE = overflow checks on (debug profile)
    max,              \* run_max's max, or NoMax under run
    ir,               \* the match arm the next call of step takes ("End": the fetch
                      \* finds no word, "Invalid": no operation decodes)
    last,             \* the match arm of the latest step, "Break" after run_max's break
    gen,              \* the code generator's result for the source program,
                      \* or NoGen when the program was given as words
    opc,              \* the opcode codec: its input, the OpCode word, the result of split
    file,             \* the container codec: the words, the bytes, the decoded words
    asm,              \* the assembler: its source and its result
    dis,              \* the disassembler: the words, the text, the words of the text
    scope,            \* a VariableStack and the result of the latest call on it
    budget            \* the loop of run_max: its steps and its max as words

vars == <<program, pc, stack, call_stack, register, output, status, steps,
          overflow_checks, max, ir, last, gen, opc, file, asm, dis, scope, budget>>

\* ---------------------------------------------------------------- bounds

\* the longest program prelude of Push Direct instructions
MaxPush == 2
\* the longest word sequence given to the container codec
MaxWords == 2

\* the most statements of an assembler source with labels
MaxItems == 3

\* the most instructions one run dispatches
MaxSteps == 6

\* the step budget of the runs under run_max
MaxBudget == 2
\* data values pushed by the sample programs are 0..MaxVal (and the all-ones word)
MaxVal == 1
\* immediate operands of the sample instructions are 0..MaxImm
MaxImm == 2
\* the number literals of the sample sources are 0..MaxLiteral
MaxLiteral == 1
\* the most statements of a sample function body
MaxStatements == 2

\* the most layers of the sample scopes
MaxLayers == 2
\* the most calls on the sample scopes
MaxCalls == 5

\* ----------------------------------------------------------------- words

\* Option::None of a word or of an array, and of an enum value
Nothing == <<>>

NoEnum == "Option::None"

WordBytes == 8

Zero == <<0, 0, 0, 0, 0, 0, 0, 0>>

MaxWord == <<255, 255, 255, 255, 255, 255, 255, 255>>

\* the word whose byte i (1 = most significant) is F(i)
Word8(F(_)) == <<F(1), F(2), F(3), F(4), F(5), F(6), F(7), F(8)>>

\* the word of a natural number below 2^31
W(n) == <<0, 0, 0, 0, (n \div 16777216) % 256, (n \div 65536) % 256,
          (n \div 256) % 256, n % 256>>

\* a word below 2^31, the values N can return
IsSmall(w) == w[1] = 0 /\ w[2] = 0 /\ w[3] = 0 /\ w[4] = 0 /\ w[5] < 128

N(w) == w[5] * 16777216 + w[6] * 65536 + w[7] * 256 + w[8]

\* a < b on words
RECURSIVE LtFrom(_, _, _)
LtFrom(a, b, i) ==
    IF i > WordBytes THEN FALSE
    ELSE IF a[i] # b[i] THEN a[i] < b[i]
    ELSE LtFrom(a, b, i + 1)

Lt(a, b) == LtFrom(a, b, 1)

Le(a, b) == a = b \/ Lt(a, b)

\* bytes i..8 of a + b + c, behind the carry out of byte i
RECURSIVE AddBytes(_, _, _, _)
AddBytes(a, b, i, c) ==
    IF i > WordBytes THEN <<c>>
    ELSE LET low == AddBytes(a, b, i + 1, c)
             sum == a[i] + b[i] + low[1]
         IN <<sum \div 256, sum % 256>> \o Tail(low)

wrapping_add(a, b) == Tail(AddBytes(a, b, 1, 0))

add_overflows(a, b) == AddBytes(a, b, 1, 0)[1] = 1

\* bytes i..8 of a - b, behind the borrow out of byte i
RECURSIVE SubBytes(_, _, _)
SubBytes(a, b, i) ==
    IF i > WordBytes THEN <<0>>
    ELSE LET low == SubBytes(a, b, i + 1)
             dif == a[i] - b[i] - low[1]
         IN <<IF dif < 0 THEN 1 ELSE 0, (dif + 256) % 256>> \o Tail(low)

wrapping_sub(a, b) == Tail(SubBytes(a, b, 1))

sub_overflows(a, b) == Lt(a, b)

\* byte of significance k (0 = least) of a word
Digit(a, k) == a[WordBytes - k]

\* sum over i + j = k of a_i * b_j, for i from lo
RECURSIVE ColumnFrom(_, _, _, _)
ColumnFrom(a, b, k, i) ==
    IF i > k \/ i >= WordBytes THEN 0
    ELSE (IF k - i < WordBytes THEN Digit(a, i) * Digit(b, k - i) ELSE 0)
         + ColumnFrom(a, b, k, i + 1)

\* the column sum with the carry of the lower columns
RECURSIVE ColumnSum(_, _, _)
ColumnSum(a, b, k) ==
    ColumnFrom(a, b, k, 0) + (IF k = 0 THEN 0 ELSE ColumnSum(a, b, k - 1) \div 256)

wrapping_mul(a, b) == Word8(LAMBDA i : ColumnSum(a, b, WordBytes - i) % 256)

mul_overflows(a, b) ==
    \/ ColumnSum(a, b, WordBytes - 1) >= 256
    \/ \E k \in WordBytes..(2 * WordBytes - 2) : ColumnFrom(a, b, k, 0) # 0

\* bit i (0 = least significant) of a word
Bit(a, i) == (Digit(a, i \div 8) \div (2 ^ (i % 8))) % 2

\* one step of binary long division: bring down bit i of a; s.r is the
\* remainder so far (s.r < d), s.q the quotient so far
DivStep(a, d, i, s) ==
    LET t == wrapping_add(s.r, W(Bit(a, i)))   \* r + bit <= d
        u == wrapping_sub(d, s.r)              \* d - r > 0
        q2 == wrapping_add(s.q, s.q)
    IN IF Le(u, t)
       THEN [q |-> wrapping_add(q2, W(1)), r |-> wrapping_sub(t, u)]
       ELSE [q |-> q2, r |-> wrapping_add(t, s.r)]

\* the steps of the bits hi down to lo, the upper half before the lower half
RECURSIVE DivRange(_, _, _, _, _)
DivRange(a, d, hi, lo, s0) ==
    IF hi = lo THEN DivStep(a, d, hi, s0)
    ELSE LET mid == (hi + lo + 1) \div 2
         IN  CHOOSE res \in {DivRange(a, d, mid - 1, lo, s) :
                                 s \in {DivRange(a, d, hi, mid, s0)}} : TRUE

DivMod(a, d, i, s0) ==
    IF i < 0 THEN s0 ELSE DivRange(a, d, i, 0, s0)

\* a / d and a % d for d # 0
word_div(a, d) == DivMod(a, d, 8 * WordBytes - 1, [q |-> Zero, r |-> Zero]).q

word_rem(a, d) == DivMod(a, d, 8 * WordBytes - 1, [q |-> Zero, r |-> Zero]).r

\* w << (8 * k) and w >> (8 * k)
Shl(w, k) == Word8(LAMBDA i : IF i + k <= WordBytes THEN w[i + k] ELSE 0)

Shr(w, k) == Word8(LAMBDA i : IF i - k >= 1 THEN w[i - k] ELSE 0)

RECURSIVE BitOr(_, _)
BitOr(x, y) ==
    IF x = 0 THEN y
    ELSE IF y = 0 THEN x
    ELSE (IF x % 2 = 1 \/ y % 2 = 1 THEN 1 ELSE 0) + 2 * BitOr(x \div 2, y \div 2)

RECURSIVE BitAnd(_, _)
BitAnd(x, y) ==
    IF x = 0 \/ y = 0 THEN 0
    ELSE (IF x % 2 = 1 /\ y % 2 = 1 THEN 1 ELSE 0) + 2 * BitAnd(x \div 2, y \div 2)

Or(a, b) == Word8(LAMBDA i : BitOr(a[i], b[i]))

And(a, b) == Word8(LAMBDA i : BitAnd(a[i], b[i]))


\* ------------------------------------------------- instruction encoding

Operations == <<"Nop", "Push", "Pop", "Mov", "Jmp", "Dup", "Add", "Sub", "Mult",
                "Div", "JmpIf", "CmpEq", "CmpNe", "CmpGt", "CmpLt", "CmpGte",
                "CmpLte", "Mod", "Call", "Ret", "Not">>

Variants == <<"None", "Register", "Direct", "Indirect", "Stack", "StackRelative",
              "Native">>

\* `operation as usize`: the discriminants of enum Operation
Operation_as_usize(op) ==
    CASE op = "Nop" -> 0 [] op = "Push" -> 1 [] op = "Pop" -> 2 [] op = "Mov" -> 3
      [] op = "Jmp" -> 4 [] op = "Dup" -> 5 [] op = "Add" -> 6 [] op = "Sub" -> 7
      [] op = "Mult" -> 8 [] op = "Div" -> 9 [] op = "JmpIf" -> 10
      [] op = "CmpEq" -> 11 [] op = "CmpNe" -> 12 [] op = "CmpGt" -> 13
      [] op = "CmpLt" -> 14 [] op = "CmpGte" -> 15 [] op = "CmpLte" -> 16
      [] op = "Mod" -> 17 [] op = "Call" -> 18 [] op = "Ret" -> 19 [] op = "Not" -> 20

\* fault: every value above the last discriminant is taken as the last operation
Operation_from_usize_saturating(value) ==
    IF ~IsSmall(value) \/ N(value) >= 20 THEN "Not"
    ELSE Operations[N(value) + 1]

Operation_from_usize(value) ==
    IF ~IsSmall(value) THEN NoEnum
    ELSE LET n == N(value) IN
         CASE n = 0 -> "Nop" [] n = 1 -> "Push" [] n = 2 -> "Pop"
           [] n = 3 -> "Mov" [] n = 4 -> "Jmp" [] n = 5 -> "Dup"
           [] n = 6 -> "Add" [] n = 7 -> "Sub" [] n = 8 -> "Mult"
           [] n = 9 -> "Div" [] n = 10 -> "JmpIf"
           [] n = 11 -> "CmpEq" [] n = 12 -> "CmpNe"
           [] n = 13 -> "CmpGt" [] n = 14 -> "CmpLt"
           [] n = 15 -> "CmpGte" [] n = 16 -> "CmpLte"
           [] n = 17 -> "Mod" [] n = 18 -> "Call"
           [] n = 19 -> "Ret" [] n = 20 -> "Not"
           [] OTHER -> NoEnum

\* `variant as usize`: the discriminants of enum Variant
Variant_as_usize(v) ==
    CASE v = "None" -> 0 [] v = "Register" -> 1 [] v = "Direct" -> 2
      [] v = "Indirect" -> 3 [] v = "Stack" -> 4 [] v = "StackRelative" -> 5
      [] v = "Native" -> 6

Variant_from_usize(value) ==
    IF ~IsSmall(value) THEN NoEnum
    ELSE LET n == N(value) IN
         CASE n = 0 -> "None" [] n = 1 -> "Register"
           [] n = 2 -> "Direct" [] n = 3 -> "Indirect"
           [] n = 4 -> "Stack" [] n = 5 -> "StackRelative"
           [] n = 6 -> "Native" [] OTHER -> NoEnum

\* fault: the second and third variant share the lowest byte
OpCode_pack_overlapping(o, a, b, c) ==
    Or(Or(Or(Shl(W(o), 4), Shl(W(a), 2)), Shl(W(b), 0)), Shl(W(c), 0))

\* the word of an operation discriminant and three variant discriminants
OpCode_pack(o, a, b, c) ==
    Or(Or(Or(Shl(W(o), 4), Shl(W(a), 2)), Shl(W(b), 1)), Shl(W(c), 0))

OpCode_new(operation, variants) ==
    OpCode_pack(Operation_as_usize(operation), Variant_as_usize(variants[1]),
                Variant_as_usize(variants[2]), Variant_as_usize(variants[3]))

OpCode_operation(code) == Operation_from_usize(Shr(code, 4))

OpCode_variants(code) ==
    LET a == Variant_from_usize(And(Shr(code, 2), W(15)))
        b == Variant_from_usize(And(Shr(code, 1), W(15)))
        c == Variant_from_usize(And(Shr(code, 0), W(15)))
    IN IF a = NoEnum \/ b = NoEnum \/ c = NoEnum THEN Nothing ELSE <<a, b, c>>

OpCode_from_usize(value) == value

OpCode_split(code) ==
    IF OpCode_operation(code) = NoEnum THEN Nothing
    ELSE IF OpCode_variants(code) = Nothing THEN Nothing
    ELSE <<OpCode_operation(code), OpCode_variants(code)>>

NativeFunctions_Print == 0

NativeFunctions_Exit == 1


\* -------------------------------------------------------------------- VM
\* A vm record is the VM struct plus: output (what println! wrote), panic (the
\* process has panicked; the other fields are as the panic left them) and
\* checks (the build's overflow checks).

Panic(vm) == [vm EXCEPT !.panic = TRUE]

Front(s) == SubSeq(s, 1, Len(s) - 1)

Last(s) == s[Len(s)]

\* Vec::get / indexing by a word: the index is in range
InRange(w, len) == IsSmall(w) /\ N(w) < len

\* self.pc += 1; self.program.get(self.pc - 1)
advance(vm) ==
    IF vm.pc = MaxWord
    THEN IF vm.checks
         THEN [vm |-> Panic(vm), value |-> Nothing]
         ELSE [vm |-> [vm EXCEPT !.pc = Zero], value |-> Nothing]
    ELSE [vm |-> [vm EXCEPT !.pc = wrapping_add(vm.pc, W(1))],
          value |-> IF InRange(vm.pc, Len(vm.program))
                    THEN vm.program[N(vm.pc) + 1] ELSE Nothing]

\* self.advance().unwrap()
advance_unwrap(vm) ==
    LET a == advance(vm)
    IN IF a.value = Nothing THEN [vm |-> Panic(a.vm), value |-> Nothing] ELSE a

\* self.stack.pop().unwrap()
pop_unwrap(vm) ==
    IF Len(vm.stack) = 0 THEN [vm |-> Panic(vm), value |-> Nothing]
    ELSE [vm |-> [vm EXCEPT !.stack = Front(vm.stack)], value |-> Last(vm.stack)]

push(vm, value) == [vm EXCEPT !.stack = Append(vm.stack, value)]

\* self.stack[self.stack.len() - (value + 1)] is in bounds (any overflow or
\* underflow in the index arithmetic panics or leaves an index out of bounds)
StackTopIndexOk(vm, value) == IsSmall(value) /\ N(value) + 1 <= Len(vm.stack)

StackTopIndex(vm, value) == Len(vm.stack) - (N(value) + 1) + 1

\* the result is tag "Ok" with the value, "Err", or "Panic" (index out of bounds)
value_from_variant(vm, variant, value) ==
    CASE variant = "Direct" -> [tag |-> "Ok", value |-> value]
      [] variant = "Register" ->
            IF InRange(value, Len(vm.register))
            THEN [tag |-> "Ok", value |-> vm.register[N(value) + 1]]
            ELSE [tag |-> "Panic", value |-> Nothing]
      [] variant = "Stack" ->
            IF StackTopIndexOk(vm, value)
            THEN [tag |-> "Ok", value |-> vm.stack[StackTopIndex(vm, value)]]
            ELSE [tag |-> "Panic", value |-> Nothing]
      [] variant = "StackRelative" ->
            IF InRange(value, Len(vm.stack))
            THEN [tag |-> "Ok", value |-> vm.stack[N(value) + 1]]
            ELSE [tag |-> "Panic", value |-> Nothing]
      [] OTHER -> [tag |-> "Err", value |-> Nothing]

\* fault: the operands taken in the other order (lhs = top)
pop_lhs_rhs(vm) ==
    LET l == pop_unwrap(vm)
        r == pop_unwrap(l.vm)
    IN IF l.vm.panic THEN [vm |-> l.vm, lhs |-> Nothing, rhs |-> Nothing]
       ELSE [vm |-> r.vm, lhs |-> l.value, rhs |-> r.value]

\* let rhs = self.stack.pop().unwrap(); let lhs = self.stack.pop().unwrap();
pop_rhs_lhs(vm) ==
    LET r == pop_unwrap(vm)
        l == pop_unwrap(r.vm)
    IN IF r.vm.panic THEN [vm |-> r.vm, lhs |-> Nothing, rhs |-> Nothing]
       ELSE [vm |-> l.vm, lhs |-> l.value, rhs |-> r.value]

\* push an arithmetic result; an overflow panics in a build with overflow
\* checks and wraps otherwise
push_arith(vm, overflows, wrapped) ==
    IF overflows /\ vm.checks THEN Panic(vm) ELSE push(vm, wrapped)

op_add(vm) ==
    LET p == pop_rhs_lhs(vm)
    IN IF p.vm.panic THEN p.vm
       ELSE push_arith(p.vm, add_overflows(p.lhs, p.rhs), wrapping_add(p.lhs, p.rhs))

op_mult(vm) ==
    LET p == pop_rhs_lhs(vm)
    IN IF p.vm.panic THEN p.vm
       ELSE push_arith(p.vm, mul_overflows(p.lhs, p.rhs), wrapping_mul(p.lhs, p.rhs))

op_sub(vm) ==
    LET p == pop_rhs_lhs(vm)
    IN IF p.vm.panic THEN p.vm
       ELSE push_arith(p.vm, sub_overflows(p.lhs, p.rhs), wrapping_sub(p.lhs, p.rhs))

\* fault: a zero divisor yields 0 instead of a panic
op_div_unchecked(vm) ==
    LET p == pop_rhs_lhs(vm)
    IN IF p.vm.panic THEN p.vm
       ELSE IF p.rhs = Zero THEN push(p.vm, Zero)
       ELSE push(p.vm, word_div(p.lhs, p.rhs))

op_div(vm) ==
    LET p == pop_rhs_lhs(vm)
    IN IF p.vm.panic THEN p.vm
       ELSE IF p.rhs = Zero THEN Panic(p.vm)
       ELSE push(p.vm, word_div(p.lhs, p.rhs))

op_mod(vm) ==
    LET p == pop_rhs_lhs(vm)
    IN IF p.vm.panic THEN p.vm
       ELSE IF p.rhs = Zero THEN Panic(p.vm)
       ELSE push(p.vm, word_rem(p.lhs, p.rhs))

op_push(vm, op) ==
    LET variants == OpCode_variants(op)
        a == advance_unwrap(vm)
    IN IF variants = Nothing THEN Panic(vm)
       ELSE IF variants[1] \notin {"Direct", "Register", "Stack", "StackRelative"}
       THEN Panic(vm)
       ELSE IF a.vm.panic THEN a.vm
       ELSE CASE variants[1] = "Direct" -> push(a.vm, a.value)
              [] variants[1] = "Register" ->
                    IF InRange(a.value, Len(a.vm.register))
                    THEN push(a.vm, a.vm.register[N(a.value) + 1]) ELSE Panic(a.vm)
              [] variants[1] = "Stack" ->
                    IF StackTopIndexOk(a.vm, a.value)
                    THEN push(a.vm, a.vm.stack[StackTopIndex(a.vm, a.value)])
                    ELSE Panic(a.vm)
              [] variants[1] = "StackRelative" ->
                    IF InRange(a.value, Len(a.vm.stack))
                    THEN push(a.vm, a.vm.stack[N(a.value) + 1]) ELSE Panic(a.vm)

op_mov(vm, op) ==
    LET variants == OpCode_variants(op)
        where_ == advance_unwrap(vm)
        what_ == advance_unwrap(where_.vm)
        m == what_.vm
        what == value_from_variant(m, variants[2], what_.value)
    IN IF variants = Nothing THEN Panic(vm)
       ELSE IF where_.vm.panic THEN where_.vm
       ELSE IF m.panic THEN m
       ELSE IF what.tag # "Ok" THEN Panic(m)
       ELSE CASE variants[1] = "Register" ->
                    IF InRange(where_.value, Len(m.register))
                    THEN [m EXCEPT !.register[N(where_.value) + 1] = what.value]
                    ELSE Panic(m)
              [] variants[1] = "Stack" ->
                    IF StackTopIndexOk(m, where_.value)
                    THEN [m EXCEPT !.stack[StackTopIndex(m, where_.value)] = what.value]
                    ELSE Panic(m)
              [] variants[1] = "StackRelative" ->
                    IF InRange(where_.value, Len(m.stack))
                    THEN [m EXCEPT !.stack[N(where_.value) + 1] = what.value]
                    ELSE Panic(m)
              [] OTHER -> Panic(m)

\* self.stack.pop(); the popped Option is dropped
op_pop(vm) ==
    IF Len(vm.stack) = 0 THEN vm ELSE [vm EXCEPT !.stack = Front(vm.stack)]

\* (b as usize)
bool_as_usize(b) == IF b THEN W(1) ELSE W(0)

\* fault: CmpGt and CmpLt compare in the wrong direction
cmp_holds_reversed(operation, lhs, rhs) ==
    CASE operation = "CmpEq" -> lhs = rhs
      [] operation = "CmpNe" -> lhs # rhs
      [] operation = "CmpGt" -> Lt(lhs, rhs)
      [] operation = "CmpLt" -> Lt(rhs, lhs)
      [] operation = "CmpGte" -> ~Lt(lhs, rhs)
      [] operation = "CmpLte" -> ~Lt(rhs, lhs)

cmp_holds(operation, lhs, rhs) ==
    CASE operation = "CmpEq" -> lhs = rhs
      [] operation = "CmpNe" -> lhs # rhs
      [] operation = "CmpGt" -> Lt(rhs, lhs)
      [] operation = "CmpLt" -> Lt(lhs, rhs)
      [] operation = "CmpGte" -> ~Lt(lhs, rhs)
      [] operation = "CmpLte" -> ~Lt(rhs, lhs)

op_cmp(vm, op, operation) ==
    LET p == pop_rhs_lhs(vm)
    IN IF p.vm.panic THEN p.vm
       ELSE push(p.vm, bool_as_usize(cmp_holds(operation, p.lhs, p.rhs)))

op_dup(vm, op) ==
    LET variants == OpCode_variants(op)
        a == advance_unwrap(vm)
    IN IF variants = Nothing THEN Panic(vm)
       ELSE IF variants[1] # "Stack" THEN Panic(vm)
       ELSE IF a.vm.panic THEN a.vm
       ELSE IF Len(a.vm.stack) = 0 THEN Panic(a.vm)
       ELSE IF StackTopIndexOk(a.vm, a.value)
       THEN push(a.vm, a.vm.stack[StackTopIndex(a.vm, a.value)])
       ELSE Panic(a.vm)

\* the address op_call pushes on the call stack: self.pc + 1, self.pc being
\* the address of the word after the call's immediate
return_address(pc_) == wrapping_add(pc_, W(1))

\* fault: Exit does not end the run loop
call_native_exit_ignored(m, value) ==
    IF value = W(NativeFunctions_Print)
    THEN IF Len(m.stack) = 0 THEN [vm |-> Panic(m), ret |-> TRUE]
         ELSE [vm |-> [m EXCEPT !.output = Append(m.output, Last(m.stack))], ret |-> TRUE]
    ELSE [vm |-> m, ret |-> TRUE]

\* fault: Print consumes the value it writes
call_native_print_pops(m, value) ==
    IF value = W(NativeFunctions_Print)
    THEN IF Len(m.stack) = 0 THEN [vm |-> Panic(m), ret |-> TRUE]
         ELSE [vm |-> [m EXCEPT !.output = Append(m.output, Last(m.stack)),
                                !.stack = Front(m.stack)],
               ret |-> TRUE]
    ELSE IF value = W(NativeFunctions_Exit)
    THEN [vm |-> m, ret |-> FALSE]
    ELSE [vm |-> m, ret |-> TRUE]

\* the Native arm of op_call: Print writes the top of the stack, Exit makes
\* step return false, any other id does nothing
call_native(m, value) ==
    IF value = W(NativeFunctions_Print)
    THEN IF Len(m.stack) = 0 THEN [vm |-> Panic(m), ret |-> TRUE]
         ELSE [vm |-> [m EXCEPT !.output = Append(m.output, Last(m.stack))], ret |-> TRUE]
    ELSE IF value = W(NativeFunctions_Exit)
    THEN [vm |-> m, ret |-> FALSE]
    ELSE [vm |-> m, ret |-> TRUE]

\* the result is the vm and what step returns (FALSE ends the run loop)
op_call(vm, op) ==
    LET a == advance_unwrap(vm)
        m == a.vm
        variants == OpCode_variants(op)
    IN IF m.panic THEN [vm |-> m, ret |-> TRUE]
       ELSE IF variants = Nothing THEN [vm |-> Panic(m), ret |-> TRUE]
       ELSE CASE variants[1] = "Direct" ->
                    IF m.pc = MaxWord /\ m.checks THEN [vm |-> Panic(m), ret |-> TRUE]
                    ELSE [vm |-> [m EXCEPT !.call_stack = Append(m.call_stack, return_address(m.pc)),
                                           !.pc = a.value],
                          ret |-> TRUE]
              [] variants[1] = "Native" -> call_native(m, a.value)
              [] OTHER -> [vm |-> Panic(m), ret |-> TRUE]

op_ret(vm) ==
    IF Len(vm.call_stack) = 0 THEN Panic(vm)
    ELSE [vm EXCEPT !.pc = Last(vm.call_stack), !.call_stack = Front(vm.call_stack)]

op_not(vm) ==
    LET p == pop_unwrap(vm)
    IN IF p.vm.panic THEN p.vm ELSE push(p.vm, bool_as_usize(p.value = Zero))

\* fault: JmpIf pops the condition it tests
op_jmp_popping(vm, op, operation) ==
    LET variants == OpCode_variants(op)
        a == advance_unwrap(vm)
        m == a.vm
        addr == value_from_variant(m, variants[1], a.value)
        popped == [m EXCEPT !.stack = Front(m.stack)]
    IN IF variants = Nothing THEN Panic(vm)
       ELSE IF m.panic THEN m
       ELSE IF operation = "Jmp"
       THEN IF addr.tag = "Ok" THEN [m EXCEPT !.pc = addr.value] ELSE Panic(m)
       ELSE IF Len(m.stack) = 0 THEN Panic(m)
            ELSE IF Last(m.stack) # Zero
            THEN IF addr.tag = "Ok" THEN [popped EXCEPT !.pc = addr.value] ELSE Panic(m)
            ELSE popped

op_jmp(vm, op, operation) ==
    LET variants == OpCode_variants(op)
        a == advance_unwrap(vm)
        m == a.vm
        addr == value_from_variant(m, variants[1], a.value)
    IN IF variants = Nothing THEN Panic(vm)
       ELSE IF m.panic THEN m
       ELSE IF operation = "Jmp"
       THEN IF addr.tag = "Ok" THEN [m EXCEPT !.pc = addr.value] ELSE Panic(m)
       ELSE \* JmpIf
            IF Len(m.stack) = 0 THEN Panic(m)
            ELSE IF Last(m.stack) # Zero
            THEN IF addr.tag = "Ok" THEN [m EXCEPT !.pc = addr.value] ELSE Panic(m)
            ELSE m


\* --------------------------------------------------------- the run loop

NoMax == -1

\* gen when the program is given as words
NoGen ==
    [state |-> "none", source |-> <<>>, points |-> <<>>, error |-> "", functions |-> <<>>,
     unresolved_function |-> <<>>, notes |-> <<>>, program |-> <<>>, entry |-> <<>>]

\* last before the first step
NoStep == "no step"

\* the codecs and the assembler when a run does not use them
NoCode == [state |-> "none", operation |-> NoEnum, variants |-> <<>>, word |-> Zero,
           split |-> <<>>]

NoAsm ==
    [state |-> "none", source |-> <<>>,
     a |-> [lexer |-> <<>>, current |-> [type |-> "None", value |-> "", digits |-> <<>>],
            labels |-> <<>>,
            unresolved_labels |-> <<>>, program |-> <<>>, res |-> "Lexer was empty"],
     item |-> [mnemonic |-> "", res |-> "none", words |-> <<>>],
     defs |-> <<>>, refs |-> <<>>, ended |-> FALSE, unpatched |-> <<>>,
     result |-> [some |-> FALSE, program |-> <<>>]]

NoDis ==
    [state |-> "none", bytes |-> <<>>, parsed |-> [res |-> "none", actions |-> <<>>],
     text |-> [res |-> "none", chars |-> <<>>],
     again |-> [res |-> "none", program |-> <<>>]]

NoScope == [state |-> "none"]

NoBudget == [state |-> "none"]

NoFile == [state |-> "none", data |-> <<>>, bytes |-> <<>>,
           decoded |-> [res |-> "none", program |-> <<>>], from |-> "none"]


RegisterCount == 10

\* VM::new(program, entry)
VM_new(program_, entry) ==
    [program |-> program_, pc |-> entry, stack |-> <<>>, call_stack |-> <<>>,
     register |-> [i \in 1..RegisterCount |-> Zero]]

VMSelf ==
    [program |-> program, pc |-> pc, stack |-> stack, call_stack |-> call_stack,
     register |-> register, output |-> output, panic |-> FALSE,
     checks |-> overflow_checks]

\* the fetch of step: the advanced vm and the fetched word
Fetch == advance(VMSelf)

\* the match arm step takes in vm
Dispatch(vm) ==
    LET opcode == advance(vm).value
        operation == OpCode_operation(opcode)
    IN IF opcode = Nothing THEN "End"
       ELSE IF operation = NoEnum THEN "Invalid"
       ELSE operation

\* the loop of run / run_max is about to call step and step's match arm is arm
Stepping(arm) ==
    /\ status = "running"
    /\ steps < MaxSteps
    /\ max = NoMax \/ steps + 1 <= max
    /\ ir = arm

\* the state after step: v is the vm, ret what step returned
Commit(v, ret) ==
    /\ pc' = v.pc
    /\ stack' = v.stack
    /\ call_stack' = v.call_stack
    /\ register' = v.register
    /\ output' = v.output
    /\ status' = IF v.panic THEN "panic" ELSE IF ret THEN "running" ELSE "stopped"
    /\ steps' = steps + 1
    /\ ir' = Dispatch(v)
    /\ last' = ir
    /\ UNCHANGED <<program, overflow_checks, max, gen, opc, file, asm, dis, scope, budget>>

\* run_max: steps += 1; if steps > max { break }
RunMaxBreak ==
    /\ status = "running"
    /\ max # NoMax
    /\ steps + 1 > max
    /\ status' = "stopped"
    /\ steps' = steps + 1
    /\ last' = "Break"
    /\ UNCHANGED <<program, pc, stack, call_stack, register, output, overflow_checks, max,
                   ir, gen, opc, file, asm, dis, scope, budget>>

StepEnd == Stepping("End") /\ \E v \in {Fetch.vm} : Commit(v, FALSE)

StepInvalid == Stepping("Invalid") /\ \E v \in {Panic(Fetch.vm)} : Commit(v, TRUE)

StepNop == Stepping("Nop") /\ \E v \in {Fetch.vm} : Commit(v, TRUE)

StepPush == Stepping("Push") /\ \E v \in {op_push(Fetch.vm, Fetch.value)} : Commit(v, TRUE)

StepPop == Stepping("Pop") /\ \E v \in {op_pop(Fetch.vm)} : Commit(v, TRUE)

StepAdd == Stepping("Add") /\ \E v \in {op_add(Fetch.vm)} : Commit(v, TRUE)

StepMult == Stepping("Mult") /\ \E v \in {op_mult(Fetch.vm)} : Commit(v, TRUE)

StepSub == Stepping("Sub") /\ \E v \in {op_sub(Fetch.vm)} : Commit(v, TRUE)

StepDiv == Stepping("Div") /\ \E v \in {op_div(Fetch.vm)} : Commit(v, TRUE)

StepMod == Stepping("Mod") /\ \E v \in {op_mod(Fetch.vm)} : Commit(v, TRUE)

StepMov == Stepping("Mov") /\ \E v \in {op_mov(Fetch.vm, Fetch.value)} : Commit(v, TRUE)

StepDup == Stepping("Dup") /\ \E v \in {op_dup(Fetch.vm, Fetch.value)} : Commit(v, TRUE)

StepJmp == Stepping("Jmp") /\ \E v \in {op_jmp(Fetch.vm, Fetch.value, "Jmp")} : Commit(v, TRUE)

StepJmpIf == Stepping("JmpIf") /\ \E v \in {op_jmp(Fetch.vm, Fetch.value, "JmpIf")} : Commit(v, TRUE)

StepCmp ==
    \E operation \in {"CmpEq", "CmpNe", "CmpGt", "CmpLt", "CmpGte", "CmpLte"} :
        Stepping(operation) /\ \E v \in {op_cmp(Fetch.vm, Fetch.value, operation)} : Commit(v, TRUE)

StepCall ==
    Stepping("Call") /\ \E r \in {op_call(Fetch.vm, Fetch.value)} : Commit(r.vm, r.ret)

StepRet == Stepping("Ret") /\ \E v \in {op_ret(Fetch.vm)} : Commit(v, TRUE)

StepNot == Stepping("Not") /\ \E v \in {op_not(Fetch.vm)} : Commit(v, TRUE)

\* VM::step under the loop of VM::run
Step ==
    \/ StepEnd \/ StepInvalid \/ StepNop \/ StepPush \/ StepPop \/ StepAdd
    \/ StepMult \/ StepSub \/ StepDiv \/ StepMod \/ StepMov \/ StepDup \/ StepJmp
    \/ StepJmpIf \/ StepCmp \/ StepCall \/ StepRet \/ StepNot

\* ------------------------------------------ the programs the VM is run on

VariantSet == {Variants[i] : i \in 1..Len(Variants)}

ZeroOperandOps == {"Nop", "Pop", "Add", "Sub", "Mult", "Div", "Mod", "CmpEq", "CmpNe",
                   "CmpGt", "CmpLt", "CmpGte", "CmpLte", "Ret", "Not"}

OneOperandOps == {"Push", "Dup", "Jmp", "JmpIf", "Call"}

Vals == {W(i) : i \in 0..MaxVal} \cup {MaxWord}

Imms == {W(i) : i \in 0..MaxImm}

NoVariants == <<"None", "None", "None">>

PoolZero == {<<OpCode_new(o, NoVariants)>> : o \in ZeroOperandOps}

PoolOne == {<<OpCode_new(o, <<v, "None", "None">>), i>> :
                o \in OneOperandOps, v \in VariantSet, i \in Imms}

MovPairs == (VariantSet \X {"Direct", "Stack"}) \cup ({"Register", "Stack"} \X VariantSet)

PoolMov == {<<OpCode_new("Mov", <<vv[1], vv[2], "None">>), W(0), W(1)>> : vv \in MovPairs}

\* words no emitter writes: an operation field above 20, a variant field
\* above 6, a variant byte whose low four bits are a variant
PoolOdd == {<<OpCode_pack(21, 0, 0, 0)>>, <<OpCode_pack(1, 7, 0, 0), W(1)>>,
            <<OpCode_pack(1, 2, 0, 9), W(1)>>, <<OpCode_pack(1, 18, 0, 0), W(1)>>}

Pool == PoolZero \cup PoolOne \cup PoolMov \cup PoolOdd

Prelude == {<<OpCode_new("Push", <<"Direct", "None", "None">>), v>> : v \in Vals}

\* what follows the middle instruction: nothing, a Ret, a call of Exit
Tails == {<<>>, <<OpCode_new("Ret", NoVariants)>>,
          <<OpCode_new("Call", <<"Native", "None", "None">>), W(NativeFunctions_Exit)>>}

\* the concatenations of at most n members of S
RECURSIVE Concats(_, _)
Concats(S, n) ==
    IF n = 0 THEN {<<>>}
    ELSE Concats(S, n - 1) \cup {p \o x : p \in Concats(S, n - 1), x \in S}

VMPrograms == {a \o b \o c : a \in Concats(Prelude, MaxPush), b \in Pool,
                             c \in Tails}

InitVM ==
    /\ program \in VMPrograms
    /\ pc = VM_new(program, Zero).pc
    /\ stack = VM_new(program, Zero).stack
    /\ call_stack = VM_new(program, Zero).call_stack
    /\ register = VM_new(program, Zero).register
    /\ output = <<>>
    /\ status = "running"
    /\ steps = 0
    /\ overflow_checks \in BOOLEAN
    /\ max \in {NoMax, MaxBudget}
    /\ ir = Dispatch(VMSelf)
    /\ last = NoStep
    /\ gen = NoGen
    /\ opc = NoCode
    /\ file = NoFile
    /\ asm = NoAsm
    /\ dis = NoDis
    /\ scope = NoScope
    /\ budget = NoBudget

NextVM == Step \/ RunMaxBreak

SpecVM == InitVM /\ [][NextVM]_vars

\* --------------------------------------------------- variable_stack.rs
\* A VariableStack is [stack, items]: stack is the layers, innermost last, a
\* layer the entries [name, location, variant] of its HashMap; items is the
\* per-layer counters. The operations return [vs, res]: res is "Ok", "Err"
\* (an Err is returned) or "Panic"; checks is the build's overflow checks.

VariableStack_new == [stack |-> <<>>, items |-> <<>>]

enter(vs) == [stack |-> Append(vs.stack, <<>>), items |-> Append(vs.items, Zero)]

\* layer.get(name): the index of the entry, 0 when there is none
RECURSIVE LayerFind(_, _, _)
LayerFind(layer, name, i) ==
    IF i > Len(layer) THEN 0
    ELSE IF layer[i].name = name THEN i
    ELSE LayerFind(layer, name, i + 1)

\* fault: the entries of every variant are moved
RECURSIVE LayerShift_every(_, _)
LayerShift_every(layer, up) ==
    IF layer = <<>> THEN <<>>
    ELSE <<[Head(layer) EXCEPT !.location = IF up THEN wrapping_add(@, W(1))
                                            ELSE wrapping_sub(@, W(1))]>>
         \o LayerShift_every(Tail(layer), up)

\* Var::inc (up) or Var::dec on the Stack entries of a layer
RECURSIVE LayerShift(_, _)
LayerShift(layer, up) ==
    IF layer = <<>> THEN <<>>
    ELSE LET l == Head(layer)
             moved == IF up THEN wrapping_add(l.location, W(1))
                      ELSE wrapping_sub(l.location, W(1))
         IN <<IF l.variant = "Stack" THEN [l EXCEPT !.location = moved] ELSE l>>
            \o LayerShift(Tail(layer), up)

RECURSIVE LayersShift(_, _)
LayersShift(layers, up) ==
    IF layers = <<>> THEN <<>>
    ELSE <<LayerShift(Head(layers), up)>> \o LayersShift(Tail(layers), up)

\* some Stack entry cannot move: location += 1 or location -= 1 overflows
ShiftOverflows(layers, up) ==
    \E i \in 1..Len(layers) : \E j \in 1..Len(layers[i]) :
        /\ layers[i][j].variant = "Stack"
        /\ layers[i][j].location = (IF up THEN MaxWord ELSE Zero)

\* increment_relative (up) and decrement_relative
shift_relative(vs, up, checks) ==
    LET top == Len(vs.items)
        edge == IF up THEN MaxWord ELSE Zero
        count == IF up THEN wrapping_add(vs.items[top], W(1))
                 ELSE wrapping_sub(vs.items[top], W(1))
    IN IF checks /\ ShiftOverflows(vs.stack, up) THEN [vs |-> vs, res |-> "Panic"]
       ELSE IF top = 0 THEN [vs |-> vs, res |-> "Panic"]
       ELSE IF checks /\ vs.items[top] = edge THEN [vs |-> vs, res |-> "Panic"]
       ELSE [vs |-> [stack |-> LayersShift(vs.stack, up),
                     items |-> [vs.items EXCEPT ![top] = count]],
             res |-> "Ok"]

increment_relative(vs, checks) == shift_relative(vs, TRUE, checks)

decrement_relative(vs, checks) == shift_relative(vs, FALSE, checks)

\* the loop of leave: n more calls of decrement_relative
RECURSIVE leave_loop(_, _, _)
leave_loop(vs, n, checks) ==
    IF n = 0 THEN [vs |-> vs, res |-> "Ok"]
    ELSE LET d == decrement_relative(vs, checks)
         IN IF d.res # "Ok" THEN d ELSE leave_loop(d.vs, n - 1, checks)

\* leave; a counter that has wrapped below zero makes the loop run 2^64 - 1
\* times, which is res "Hang"
leave(vs, checks) ==
    LET popped == [vs EXCEPT !.stack = Front(vs.stack)]
        must_be_popped == vs.items[Len(vs.items)]
        looped == leave_loop(popped, N(must_be_popped), checks)
    IN IF vs.stack = <<>> THEN [vs |-> vs, res |-> "Err"]
       ELSE IF Len(vs.items) = 0 THEN [vs |-> vs, res |-> "Panic"]
       ELSE IF ~IsSmall(must_be_popped) THEN [vs |-> vs, res |-> "Hang"]
       ELSE IF looped.res # "Ok" THEN looped
       ELSE [vs |-> [looped.vs EXCEPT !.items = Front(looped.vs.items)], res |-> "Ok"]

\* get: the layers are searched from the outermost one; the result is
\* Some(Var) or None
NoVar == [some |-> FALSE, location |-> Zero, variant |-> "None"]

RECURSIVE get_from(_, _, _)
get_from(vs, variable, i) ==
    IF i > Len(vs.stack) THEN NoVar
    ELSE LET j == LayerFind(vs.stack[i], variable, 1)
         IN IF j = 0 THEN get_from(vs, variable, i + 1)
            ELSE [some |-> TRUE, location |-> vs.stack[i][j].location,
                  variant |-> vs.stack[i][j].variant]

get(vs, variable) == get_from(vs, variable, 1)

\* fault: a name of any layer is taken as defined
create_any_layer(vs, name, current_stack_count, variant) ==
    IF Len(vs.stack) = 0 THEN [vs |-> vs, res |-> "Panic"]
    ELSE IF \E i \in 1..Len(vs.stack) : LayerFind(vs.stack[i], name, 1) # 0
    THEN [vs |-> vs, res |-> "Err"]
    ELSE [vs |-> [vs EXCEPT !.stack[Len(vs.stack)] =
                      Append(@, [name |-> name, location |-> current_stack_count,
                                 variant |-> variant])],
          res |-> "Ok"]

create(vs, name, current_stack_count, variant) ==
    LET len == Len(vs.stack)
    IN IF len = 0 THEN [vs |-> vs, res |-> "Panic"]
       ELSE IF LayerFind(vs.stack[len], name, 1) # 0 THEN [vs |-> vs, res |-> "Err"]
       ELSE [vs |-> [vs EXCEPT !.stack[len] =
                         Append(@, [name |-> name, location |-> current_stack_count,
                                    variant |-> variant])],
             res |-> "Ok"]

\* ------------------------------------------------------------ codegen.rs
\* A CodeGen is [program, variable_stack, functions, stack_size,
\* unresolved_function] with res ("Ok", "Err": an Err is returned, "Panic",
\* "Hang") and checks (the build's overflow checks). For the comparison with
\* the run, function and base record the function being generated and
\* stack_size at its start, and points, for each word of program, the function
\* and stack_size - base at its emission. functions is the entries
\* [name, addr] of the HashMap. An AST node is a record with its kind.

\* Operation::Swap, which codegen.rs emits and instruction.rs does not
\* declare: the discriminant after Not; the VM has no arm for it
Operation_Swap == 21

\* Variant::StackAbsoulute, which codegen.rs uses and instruction.rs does not
\* declare: the absolute index from the bottom of the stack
Variant_StackAbsoulute == "StackRelative"

CodeGen_new(checks_) ==
    [program |-> <<>>, variable_stack |-> VariableStack_new, functions |-> <<>>,
     stack_size |-> Zero, unresolved_function |-> <<>>, res |-> "Ok",
     checks |-> checks_, points |-> <<>>, function |-> "", base |-> Zero,
     error |-> "", notes |-> <<>>]

Fail(cg, res_) == [cg EXCEPT !.res = res_]

\* an Err with its message is returned
FailWith(cg, message) == [cg EXCEPT !.res = "Err", !.error = message]

\* the immediate word at location is noted as that of a call of name, known
\* when the entry of the function was written into it, or, with kind "Jmp",
\* of a forward jump, named after the statement and the jump, or, with kind
\* "Mov", the opcode word of the Mov of an assignment to name, or, with kind
\* "BinOp", the opcode word of a binary operation; len is
\* self.program.len() at that moment
Noted(cg, kind_, name_, location_, known_) ==
    [cg EXCEPT !.notes = Append(@, [kind |-> kind_, name |-> name_,
                                    location |-> location_, known |-> known_,
                                    len |-> W(Len(cg.program))])]

\* Once an Err is returned or a panic is raised nothing more of the generator
\* runs: every operation below leaves a failed CodeGen as it is.
Failed(cg) == cg.res # "Ok"

\* a call of a VariableStack operation from the generator: `?` returns its Err
with_variable_stack(cg, r) ==
    IF Failed(cg) THEN cg
    ELSE IF r.res = "Ok" THEN [cg EXCEPT !.variable_stack = r.vs]
    ELSE IF r.res = "Err" THEN FailWith(cg, "VariableStack")
    ELSE Fail(cg, r.res)

\* op!(op, variants...)
op(operation, variants) ==
    IF operation = "Swap" THEN OpCode_pack(Operation_Swap, 0, 0, 0)
    ELSE OpCode_new(operation, variants)

variants1(v) == <<v, "None", "None">>

variants2(v1, v2) == <<v1, v2, "None">>

\* self.program.push(word)
program_push(cg, word) ==
    IF Failed(cg) THEN cg
    ELSE
    [cg EXCEPT !.program = Append(@, word),
               !.points = Append(@, [function |-> cg.function,
                                     depth |-> wrapping_sub(cg.stack_size, cg.base)])]

\* self.program.len()
program_len(cg) == W(Len(cg.program))

\* self.program[addr] = word
program_set(cg, addr, word) ==
    IF Failed(cg) THEN cg
    ELSE IF InRange(addr, Len(cg.program)) THEN [cg EXCEPT !.program[N(addr) + 1] = word]
    ELSE Fail(cg, "Panic")

\* self.stack_size += 1 / -= 1
stack_size_add(cg) ==
    IF Failed(cg) THEN cg
    ELSE IF cg.checks /\ cg.stack_size = MaxWord THEN Fail(cg, "Panic")
    ELSE [cg EXCEPT !.stack_size = wrapping_add(@, W(1))]

stack_size_sub(cg) ==
    IF Failed(cg) THEN cg
    ELSE IF cg.checks /\ cg.stack_size = Zero THEN Fail(cg, "Panic")
    ELSE [cg EXCEPT !.stack_size = wrapping_sub(@, W(1))]

\* the calls of the VariableStack operations from the generator; `?`, where
\* the code has one, returns the Err
variable_stack_enter(cg) == [cg EXCEPT !.variable_stack = enter(@)]

variable_stack_leave(cg) ==
    with_variable_stack(cg, leave(cg.variable_stack, cg.checks))

variable_stack_increment_relative(cg) ==
    with_variable_stack(cg, increment_relative(cg.variable_stack, cg.checks))

variable_stack_decrement_relative(cg) ==
    with_variable_stack(cg, decrement_relative(cg.variable_stack, cg.checks))

variable_stack_create(cg, name, current_stack_count, variant) ==
    with_variable_stack(cg, create(cg.variable_stack, name, current_stack_count, variant))

\* stack_push; the value it returns is stack_size - 1 of the result
stack_push(cg, variant, value) ==
    variable_stack_increment_relative(
        stack_size_add(program_push(program_push(cg, op("Push", variants1(variant))), value)))

stack_pop(cg) ==
    stack_size_sub(variable_stack_decrement_relative(program_push(cg, op("Pop", NoVariants))))

stack_lower(cg) == stack_size_sub(variable_stack_decrement_relative(cg))

stack_increce(cg) == stack_size_add(variable_stack_increment_relative(cg))

\* HashMap get and insert on functions
RECURSIVE functions_find(_, _, _)
functions_find(functions, name, i) ==
    IF i > Len(functions) THEN 0
    ELSE IF functions[i].name = name THEN i
    ELSE functions_find(functions, name, i + 1)

functions_insert(functions, name, addr) ==
    LET i == functions_find(functions, name, 1)
    IN IF i = 0 THEN Append(functions, [name |-> name, addr |-> addr])
       ELSE [functions EXCEPT ![i].addr = addr]

\* NativeFunctions::from_string: the id, or -1 for None
NativeFunctions_from_string(name) ==
    CASE name = "print" -> NativeFunctions_Print
      [] name = "exit" -> NativeFunctions_Exit
      [] OTHER -> -1

\* Option<Operand>
NoOperand == [some |-> FALSE, value |-> Zero, variant |-> "None"]

Operand_new(value_, variant_) == [some |-> TRUE, value |-> value_, variant |-> variant_]

\* the result of generate_statement
Stmt(cg_, value_) == [cg |-> cg_, value |-> value_]

push_if_not_last_on_stack(cg, ast, operand) ==
    IF ast.kind = "Variable" THEN stack_push(cg, operand.variant, operand.value)
    ELSE IF operand.variant = "Stack" /\ operand.value = Zero THEN cg
    ELSE stack_push(cg, operand.variant, operand.value)

\* the opcode of a binary operator token, NoEnum for any other token
binop_operation(token) ==
    CASE token = "Plus" -> "Add"
      [] token = "Dash" -> "Sub"
      [] token = "Times" -> "Mult"
      [] token = "Slash" -> "Div"
      [] token = "Percent" -> "Mod"
      [] token = "Equal" -> "CmpEq"
      [] token = "LessThan" -> "CmpLt"
      [] token = "GreaterThan" -> "CmpGt"
      [] OTHER -> NoEnum

RECURSIVE generate_statement(_, _)
RECURSIVE generate_statements(_, _, _)
RECURSIVE generate_block(_, _)
RECURSIVE generate_call_args(_, _, _)

\* .with_context(..)? on the result s of generate_statement: a statement
\* without a value is an Err
with_context(s) ==
    IF ~Failed(s.cg) /\ ~s.value.some
    THEN Stmt(FailWith(s.cg, "must evaluate to a value"), NoOperand)
    ELSE s

\* self.generate_statement(ast)?.with_context(..)?
generate_value(cg, ast) == with_context(generate_statement(cg, ast))

\* self.stack_push(value.variant, value.value) on the result s of generate_value
push_value(s) ==
    IF Failed(s.cg) THEN s.cg ELSE stack_push(s.cg, s.value.variant, s.value.value)

\* the loop of generate_block, from statement i
generate_statements(cg, statements, i) ==
    IF Failed(cg) \/ i > Len(statements) THEN cg
    ELSE generate_statements(generate_statement(cg, statements[i]).cg, statements, i + 1)

generate_block(cg, block) ==
    IF Failed(cg) THEN cg
    ELSE variable_stack_leave(
             generate_statements(variable_stack_enter(cg), block.statements, 1))

\* the first loop of generate_call, from argument i
generate_call_args(cg, args, i) ==
    IF Failed(cg) \/ i > Len(args) THEN cg
    ELSE generate_call_args(push_value(generate_value(cg, args[i])), args, i + 1)

\* the second loop of generate_call: n more arguments to drop
RECURSIVE pop_call_args(_, _)
pop_call_args(cg, n) ==
    IF Failed(cg) \/ n = 0 THEN cg
    ELSE pop_call_args(stack_pop(program_push(cg, op("Swap", NoVariants))), n - 1)

\* generate_call after op!(Call, Direct): found is the entry of functions
call_direct(cg, name, found) ==
    IF Failed(cg) THEN cg
    ELSE IF found # 0
    THEN program_push(Noted(cg, "Call", name, program_len(cg), TRUE),
                      cg.functions[found].addr)
    ELSE program_push([Noted(cg, "Call", name, program_len(cg), FALSE)
                           EXCEPT !.unresolved_function =
                                      Append(@, [name |-> name, location |-> program_len(cg)])],
                      Zero)

\* generate_call after the arguments: func is NativeFunctions::from_string
call_emit(cg, call, func) ==
    IF Failed(cg) THEN cg
    ELSE pop_call_args(
             stack_increce(
                 IF func # -1
                 THEN program_push(program_push(cg, op("Call", variants1("Native"))), W(func))
                 ELSE call_direct(program_push(cg, op("Call", variants1("Direct"))),
                                  call.name, functions_find(cg.functions, call.name, 1))),
             Len(call.args))

generate_call(cg, call) ==
    call_emit(generate_call_args(cg, call.args, 1), call,
              NativeFunctions_from_string(call.name))

\* the loop of generate_function, from parameter i
RECURSIVE create_parameters(_, _, _)
create_parameters(cg, variables, i) ==
    IF Failed(cg) \/ i > Len(variables) THEN cg
    ELSE create_parameters(variable_stack_create(cg, variables[i], W(i - 1), "Stack"),
                           variables, i + 1)

generate_function(cg, definition) ==
    IF Failed(cg) THEN cg
    ELSE generate_block(
             create_parameters(
                 [cg EXCEPT !.functions = functions_insert(@, definition.name, program_len(cg)),
                            !.function = definition.name, !.base = cg.stack_size],
                 definition.variables, 1),
             definition.block)

generate_variable_definition(cg, definition) ==
    variable_stack_create(push_value(generate_value(cg, definition.value)),
                          definition.name, Zero, "Stack")

\* generate_set_variable after the value s
set_variable(s, name) ==
    LET variable == get(s.cg.variable_stack, name)
    IN IF Failed(s.cg) THEN s.cg
       ELSE IF ~variable.some THEN FailWith(s.cg, "Unknown variable")
       ELSE stack_pop(program_push(program_push(program_push(
                Noted(s.cg, "Mov", name, program_len(s.cg), TRUE),
                op("Mov", variants2("Stack", s.value.variant))), variable.location),
                s.value.value))

generate_set_variable(cg, definition) ==
    set_variable(generate_value(cg, definition.value), definition.name)

\* generate_binop after both pushes: the match on binop.op and stack_lower
binop_emit(cg, operation) ==
    IF Failed(cg) THEN cg
    ELSE IF operation = NoEnum THEN FailWith(cg, "Unknown binop")
    ELSE stack_lower(program_push(Noted(cg, "BinOp", operation, program_len(cg), TRUE),
                                  op(operation, NoVariants)))

\* generate_binop after the right operand r; lhs is the left one
binop_push(lhs, r, binop) ==
    IF Failed(r.cg) THEN r.cg
    ELSE binop_emit(push_if_not_last_on_stack(
                        push_if_not_last_on_stack(r.cg, binop.lhs, lhs), binop.rhs, r.value),
                    binop_operation(binop.op))

\* generate_binop after the left operand l
binop_rhs(l, binop) ==
    IF Failed(l.cg) THEN l.cg
    ELSE binop_push(l.value, generate_value(l.cg, binop.rhs), binop)

generate_binop(cg, binop) == binop_rhs(generate_value(cg, binop.lhs), binop)

\* generate_return after the value s
return_emit(s, ret) ==
    IF Failed(s.cg) THEN s.cg
    ELSE program_push(push_if_not_last_on_stack(s.cg, ret.value, s.value),
                      op("Ret", NoVariants))

generate_return(cg, ret) == return_emit(generate_value(cg, ret.value), ret)

\* the end of generate_if: the jump over the else block is patched
if_end(cg, jmp_to_end_addr) ==
    IF Failed(cg) THEN cg
    ELSE program_set(Noted(cg, "Jmp", "if_end", jmp_to_end_addr, FALSE), jmp_to_end_addr,
                     wrapping_sub(program_len(cg), W(1)))

\* generate_if after the jump over the else block has been emitted (jmp)
if_else(jmp, jmp_to_else_addr, ef) ==
    IF Failed(jmp) THEN jmp
    ELSE if_end(IF ef.else.some
                THEN generate_block(program_set(Noted(jmp, "Jmp", "if_else", jmp_to_else_addr, FALSE),
                                                jmp_to_else_addr, program_len(jmp)),
                                    ef.else)
                ELSE program_set(Noted(jmp, "Jmp", "if_else", jmp_to_else_addr, FALSE),
                                 jmp_to_else_addr, program_len(jmp)),
                wrapping_sub(program_len(jmp), W(1)))

\* generate_if after the then block
if_jmp(then, jmp_to_else_addr, ef) ==
    IF Failed(then) THEN then
    ELSE if_else(program_push(program_push(then, op("Jmp", variants1("Direct"))), W(10)),
                 jmp_to_else_addr, ef)

\* generate_if after stack_lower (lowered)
if_then(lowered, ef) ==
    IF Failed(lowered) THEN lowered
    ELSE if_jmp(generate_block(lowered, ef.then),
                wrapping_sub(program_len(lowered), W(1)), ef)

\* generate_if after the condition s
if_cond(s, ef) ==
    IF Failed(s.cg) THEN s.cg
    ELSE if_then(stack_lower(program_push(program_push(program_push(
                     push_if_not_last_on_stack(s.cg, ef.cond, s.value),
                     op("Not", NoVariants)), op("JmpIf", variants1("Direct"))), Zero)),
                 ef)

generate_if(cg, ef) == if_cond(generate_value(cg, ef.cond), ef)

\* the end of generate_from_to: the exit jump is patched, current and start
\* are popped
from_to_end(back, end_addr) ==
    IF Failed(back) THEN back
    ELSE stack_pop(stack_pop(program_set(Noted(back, "Jmp", "from_to_end", end_addr, FALSE), end_addr,
                                         program_len(back))))

\* generate_from_to after the block (action): add, mov, jump back
from_to_add(action, end_addr, var, loop_start) ==
    IF Failed(action) THEN action
    ELSE from_to_end(
             program_push(program_push(
                 stack_pop(stack_pop(
                     program_push(program_push(program_push(
                         program_push(
                             stack_push(stack_push(action, Variant_StackAbsoulute, var),
                                        "Direct", W(1)),
                             op("Add", NoVariants)),
                         op("Mov", variants2(Variant_StackAbsoulute, "Stack"))), var), Zero))),
                 op("Jmp", variants1("Direct"))), loop_start),
             end_addr)

\* generate_from_to after the exit jump has been emitted (jmp_if)
from_to_action(jmp_if, var, loop_start, ft) ==
    IF Failed(jmp_if) THEN jmp_if
    ELSE from_to_add(generate_block(jmp_if, ft.block),
                     wrapping_sub(program_len(jmp_if), W(1)), var, loop_start)

\* generate_from_to after the push of start (current); var is what
\* stack_push returned
from_to_loop(current, finish, ft) ==
    LET var == wrapping_sub(current.stack_size, W(1))
    IN IF Failed(current) THEN current
       ELSE from_to_action(
                program_push(program_push(program_push(program_push(
                    stack_push(stack_push(current, Variant_StackAbsoulute, var),
                               finish.variant, finish.value),
                    op("CmpLt", NoVariants)), op("Not", NoVariants)),
                    op("JmpIf", variants1("Direct"))), Zero),
                var, program_len(current), ft)

\* generate_from_to after finish
from_to_current(start, finish, ft) ==
    IF Failed(finish.cg) THEN finish.cg
    ELSE from_to_loop(stack_push(finish.cg, start.variant, start.value), finish.value, ft)

\* generate_from_to after start
from_to_finish(start, ft) ==
    IF Failed(start.cg) THEN start.cg
    ELSE from_to_current(start.value, generate_value(start.cg, ft.finish), ft)

generate_from_to(cg, ft) == from_to_finish(generate_value(cg, ft.start), ft)

\* the end of generate_while: the exit jump is patched
while_end(back, jmp_to_end_addr) ==
    IF Failed(back) THEN back
    ELSE program_set(Noted(back, "Jmp", "while_end", jmp_to_end_addr, FALSE), jmp_to_end_addr,
                     program_len(back))

\* generate_while after the block (then): the jump back
while_back(then, jmp_to_end_addr, start_addr) ==
    IF Failed(then) THEN then
    ELSE while_end(program_push(program_push(then, op("Jmp", variants1("Direct"))),
                                start_addr),
                   jmp_to_end_addr)

\* generate_while after the exit jump has been emitted (jmp_if)
while_then(jmp_if, start_addr, wile) ==
    IF Failed(jmp_if) THEN jmp_if
    ELSE while_back(generate_block(jmp_if, wile.then),
                    wrapping_sub(program_len(jmp_if), W(1)), start_addr)

\* generate_while after the condition s
while_cond(s, start_addr, wile) ==
    IF Failed(s.cg) THEN s.cg
    ELSE while_then(
             program_push(stack_lower(program_push(program_push(
                 push_if_not_last_on_stack(s.cg, wile.cond, s.value),
                 op("Not", NoVariants)), op("JmpIf", variants1("Direct")))), Zero),
             start_addr, wile)

generate_while(cg, wile) ==
    while_cond(generate_value(cg, wile.cond), program_len(cg), wile)

generate_statement(cg, statement) ==
    IF Failed(cg) THEN Stmt(cg, NoOperand)
    ELSE CASE statement.kind = "Block" -> Stmt(generate_block(cg, statement), NoOperand)
           [] statement.kind = "NumberLiteral" ->
                  Stmt(cg, Operand_new(statement.value, "Direct"))
           [] statement.kind = "Call" ->
                  Stmt(generate_call(cg, statement), Operand_new(Zero, "Stack"))
           [] statement.kind = "FunctionDefinition" ->
                  Stmt(generate_function(cg, statement), NoOperand)
           [] statement.kind = "VariableDefinition" ->
                  Stmt(generate_variable_definition(cg, statement), NoOperand)
           [] statement.kind = "VariableSet" ->
                  Stmt(generate_set_variable(cg, statement), NoOperand)
           [] statement.kind = "Variable" ->
                  LET v == get(cg.variable_stack, statement.name)
                  IN IF v.some THEN Stmt(cg, Operand_new(v.location, v.variant))
                     ELSE Stmt(FailWith(cg, "Unknown variable"), NoOperand)
           [] statement.kind = "BinOp" ->
                  Stmt(generate_binop(cg, statement), Operand_new(Zero, "Stack"))
           [] statement.kind = "Return" -> Stmt(generate_return(cg, statement), NoOperand)
           [] statement.kind = "If" -> Stmt(generate_if(cg, statement), NoOperand)
           [] statement.kind = "While" -> Stmt(generate_while(cg, statement), NoOperand)
           [] statement.kind = "FromTo" -> Stmt(generate_from_to(cg, statement), NoOperand)
           [] OTHER -> Stmt(Fail(cg, "Panic"), NoOperand)

\* the loop of generate over unresolved_function, from entry i
RECURSIVE resolve(_, _)
resolve(cg, i) ==
    IF Failed(cg) \/ i > Len(cg.unresolved_function) THEN cg
    ELSE LET func == cg.unresolved_function[i]
             j == functions_find(cg.functions, func.name, 1)
         IN IF j = 0 THEN FailWith(cg, "Unknown function")
            ELSE resolve(program_set(cg, func.location, cg.functions[j].addr), i + 1)

\* the end of generate: the entry is the address of main
generate_entry(cg) ==
    LET main == functions_find(cg.functions, "main", 1)
    IN IF Failed(cg) THEN [cg |-> cg, entry |-> Nothing]
       ELSE IF main = 0
       THEN [cg |-> FailWith(cg, "main function not defined"), entry |-> Nothing]
       ELSE [cg |-> variable_stack_enter(cg), entry |-> cg.functions[main].addr]

\* generate: the CodeGen afterwards with the entry it returns
generate(cg, ast) ==
    generate_entry(
        resolve(IF ast.kind = "Root" THEN generate_block(variable_stack_enter(cg), ast)
                ELSE FailWith(variable_stack_enter(cg), "Root must be root"), 1))

\* ------------------------------------------- generated programs on the VM

NumberLiteral(n) == [kind |-> "NumberLiteral", value |-> W(n)]

Variable(name_) == [kind |-> "Variable", name |-> name_]

VariableDefinition(name_, value_) ==
    [kind |-> "VariableDefinition", name |-> name_, value |-> value_]

VariableSet(name_, value_) == [kind |-> "VariableSet", name |-> name_, value |-> value_]

Call(name_, args_) == [kind |-> "Call", name |-> name_, args |-> args_]

BinOp(op_, lhs_, rhs_) == [kind |-> "BinOp", op |-> op_, lhs |-> lhs_, rhs |-> rhs_]

Return(value_) == [kind |-> "Return", value |-> value_]

NoBlock == [some |-> FALSE, statements |-> <<>>]

SomeBlock(statements_) == [some |-> TRUE, statements |-> statements_]

Block(statements_) == [kind |-> "Block", statements |-> statements_]

If(cond_, then_, else_) == [kind |-> "If", cond |-> cond_, then |-> Block(then_), else |-> else_]

While(cond_, then_) == [kind |-> "While", cond |-> cond_, then |-> Block(then_)]

FromTo(start_, finish_, block_) ==
    [kind |-> "FromTo", start |-> start_, finish |-> finish_, block |-> Block(block_)]

FunctionDefinition(name_, variables_, block_) ==
    [kind |-> "FunctionDefinition", name |-> name_, variables |-> variables_,
     block |-> Block(block_)]

Root(statements_) == [kind |-> "Root", statements |-> statements_]

BinOpTokens == {"Plus", "Dash", "Times", "Slash", "Percent", "Equal", "LessThan",
                "GreaterThan"}

Print1 == Call("print", <<NumberLiteral(1)>>)

\* the statements of the sample function bodies
Statements ==
    {VariableDefinition("x", NumberLiteral(n)) : n \in 0..MaxLiteral}
    \cup {VariableSet("x", NumberLiteral(1)), VariableSet("x", Variable("x")),
          VariableSet("x", BinOp("Plus", NumberLiteral(1), NumberLiteral(1))),
          Variable("x"), Return(NumberLiteral(1)),
          Block(<<>>), Print1, Call("exit", <<>>), Call("f", <<>>),
          Call("f", <<NumberLiteral(1)>>)}
    \cup {If(c, t, e) : c \in {NumberLiteral(0), NumberLiteral(1), Variable("x")},
                        t \in {<<>>, <<Print1>>}, e \in {NoBlock, SomeBlock(<<>>)}}
    \cup {If(NumberLiteral(1), <<>>, SomeBlock(<<Print1>>))}
    \cup {While(NumberLiteral(n), <<>>) : n \in 0..MaxLiteral}
    \cup {FromTo(NumberLiteral(0), NumberLiteral(n), <<>>) : n \in 0..MaxLiteral}
    \cup {BinOp(t, NumberLiteral(1), NumberLiteral(n)) : t \in BinOpTokens, n \in 0..MaxLiteral}
    \cup {BinOp("Dash", NumberLiteral(0), NumberLiteral(1)),
          BinOp("Comma", NumberLiteral(1), NumberLiteral(1))}

\* the sequences of at most n members of S
RECURSIVE Seqs(_, _)
Seqs(S, n) ==
    IF n = 0 THEN {<<>>}
    ELSE Seqs(S, n - 1) \cup {Append(p, x) : p \in Seqs(S, n - 1), x \in S}

Main(body) == FunctionDefinition("main", <<>>, body)

F == FunctionDefinition("f", <<"a">>, <<Return(NumberLiteral(1))>>)

\* the sample bodies of main: definitions of x, then one statement
Definitions == {VariableDefinition("x", NumberLiteral(n)) : n \in 0..MaxLiteral}

Bodies ==
    {<<>>} \cup {d \o <<s>> : d \in Seqs(Definitions, MaxStatements - 1), s \in Statements}

\* scenario S3: the sum of 1..10 in a counted loop
S3 ==
    Root(<<Main(<<VariableDefinition("s", NumberLiteral(0)),
                  FromTo(NumberLiteral(1), NumberLiteral(11),
                         <<VariableSet("s", BinOp("Plus", Variable("s"), Variable("i")))>>),
                  Call("print", <<Variable("s")>>),
                  Call("exit", <<NumberLiteral(0)>>)>>)>>)

\* a function without parameters that returns n
Constant(name_, n) == FunctionDefinition(name_, <<>>, <<Return(NumberLiteral(n))>>)

\* binary operations on two variables, on a literal and a binary operation,
\* on a variable and a binary operation
BinOpSamples ==
    LET zero == BinOp("Plus", NumberLiteral(0), NumberLiteral(0))
        x == VariableDefinition("x", NumberLiteral(1))
        y == VariableDefinition("y", NumberLiteral(0))
    IN {Root(<<Main(<<x, y, BinOp("Dash", Variable("x"), Variable("y"))>>)>>),
        Root(<<Main(<<BinOp("Dash", NumberLiteral(1), zero)>>)>>),
        Root(<<Main(<<x, BinOp("Dash", Variable("x"), zero)>>)>>)}

\* f with one or two parameters returns one of them; main calls f with the
\* arguments 1, 2
ParamNames == <<"a", "b">>

ParamSample(n, i) ==
    Root(<<FunctionDefinition("f", SubSeq(ParamNames, 1, n),
                              <<Return(Variable(ParamNames[i]))>>),
           Main(<<Call("f", [k \in 1..n |-> NumberLiteral(k)])>>)>>)

ParamSamples == {ParamSample(n, i) : n \in 1..Len(ParamNames), i \in 1..Len(ParamNames)}
                    \ {ParamSample(1, 2)}

\* a function g with one parameter that returns 1
G(parameter) == FunctionDefinition("g", <<parameter>>, <<Return(NumberLiteral(1))>>)

\* f and g with a parameter of the same name
SameParameter == Root(<<F, G("a"), Main(<<>>)>>)

\* main, defined after f, names the parameter of f
ParameterAfterBody == Root(<<F, Main(<<Variable("a")>>)>>)

\* the two, f and g with parameters of different names, and main naming a
\* variable that nothing defines
ScopeSamples ==
    {SameParameter, ParameterAfterBody, Root(<<F, G("b"), Main(<<>>)>>),
     Root(<<Main(<<Variable("a")>>)>>)}

\* main alone, before f and after f; f defined before and after a main that
\* calls it; f without main; S3
Sources ==
    {Root(<<Main(body)>>) : body \in Bodies}
    \cup {Root(<<Main(body), F>>) : body \in Bodies}
    \cup {Root(<<F, Main(body)>>) : body \in Bodies}
    \cup {Root(<<Constant("f", 0), Main(<<Call("f", <<>>)>>), Constant("f", 1)>>)}
    \cup {Root(<<FunctionDefinition("f", <<>>, body)>>) : body \in Bodies}
    \cup {Root(<<FunctionDefinition("f", <<>>, <<Call("g", <<>>)>>)>>)}
    \cup {S3}
    \cup BinOpSamples
    \cup ParamSamples
    \cup ScopeSamples

\* for the checks: what generate left in the CodeGen and what it returned
Generated(g) ==
    [gen EXCEPT !.error = g.cg.error, !.functions = g.cg.functions,
                !.unresolved_function = g.cg.unresolved_function, !.notes = g.cg.notes,
                !.program = g.cg.program, !.entry = g.entry]

\* CodeGen::new().generate(ast).unwrap() and, of its result, VM::new
Generate ==
    /\ gen.state = "source"
    /\ \E g \in {generate(CodeGen_new(overflow_checks), gen.source)} :
           IF g.cg.res = "Ok"
           THEN LET vm == VM_new(g.cg.program, g.entry)
                IN /\ program' = vm.program
                   /\ pc' = vm.pc
                   /\ stack' = vm.stack
                   /\ call_stack' = vm.call_stack
                   /\ register' = vm.register
                   /\ status' = "running"
                   /\ ir' = Dispatch([program |-> vm.program, pc |-> vm.pc,
                                      checks |-> overflow_checks, panic |-> FALSE])
                   /\ gen' = [Generated(g) EXCEPT !.state = "generated",
                                                  !.points = g.cg.points]
           ELSE /\ gen' = [Generated(g) EXCEPT !.state = g.cg.res]
                /\ UNCHANGED <<program, pc, stack, call_stack, register, status, ir>>
    /\ UNCHANGED <<output, steps, overflow_checks, max, last, opc, file, asm, dis, scope, budget>>

InitGen ==
    /\ gen \in {[NoGen EXCEPT !.state = "source", !.source = s] : s \in Sources}
    /\ program = <<>>
    /\ pc = Zero
    /\ stack = <<>>
    /\ call_stack = <<>>
    /\ register = VM_new(<<>>, Zero).register
    /\ output = <<>>
    /\ status = "no program"
    /\ steps = 0
    /\ overflow_checks \in BOOLEAN
    /\ max \in {NoMax, MaxBudget}
    /\ ir = NoStep
    /\ last = NoStep
    /\ opc = NoCode
    /\ file = NoFile
    /\ asm = NoAsm
    /\ dis = NoDis
    /\ scope = NoScope
    /\ budget = NoBudget

\* no program is loaded: the VM of a run that only encodes, decodes or assembles
NoRun ==
    /\ program = <<>>
    /\ pc = Zero
    /\ stack = <<>>
    /\ call_stack = <<>>
    /\ register = VM_new(<<>>, Zero).register
    /\ output = <<>>
    /\ status = "no program"
    /\ steps = 0
    /\ max = NoMax
    /\ ir = NoStep
    /\ last = NoStep
    /\ gen = NoGen

\* the generator emits no Dup (GenNoDup), so that arm is left out
NextGen ==
    \/ Generate
    \/ StepEnd \/ StepInvalid \/ StepNop \/ StepPush \/ StepPop \/ StepAdd \/ StepMult
    \/ StepSub \/ StepDiv \/ StepMod \/ StepMov \/ StepJmp \/ StepJmpIf \/ StepCmp
    \/ StepCall \/ StepRet \/ StepNot \/ RunMaxBreak

SpecGen == InitGen /\ [][NextGen]_vars

GenNoDup == ir # "Dup"


\* ------------------------------------------------------- the opcode codec
\* OpCode::new on an operation and three variants, OpCode::from_usize on a
\* word read from a program, then OpCode::split.

\* every operation with every triple of variants
OpCodeArgs ==
    {<<Operations[o], <<Variants[a], Variants[b], Variants[c]>>>> :
        o \in 1..Len(Operations), a \in 1..Len(Variants), b \in 1..Len(Variants),
        c \in 1..Len(Variants)}

\* the upper four bytes of a word: operation fields in and out of the enum
OperationFields ==
    {<<0, 0, 0, 0>>, <<0, 0, 0, 1>>, <<0, 0, 0, 20>>, <<0, 0, 0, 21>>, <<0, 0, 0, 255>>,
     <<0, 0, 1, 0>>, <<0, 1, 0, 18>>, <<128, 0, 0, 1>>, <<255, 255, 255, 255>>}

Bytes == 0..255

\* variant bytes at the edges of the enum, of the low four bits and of the byte
EdgeBytes == {0, 6, 7, 15, 16, 18, 255}

\* the lower three bytes of a word: one byte ranges over every value
VariantFields ==
    {<<a, 0, 6>> : a \in Bytes} \cup {<<6, b, 0>> : b \in Bytes}
        \cup {<<0, 6, c>> : c \in Bytes}
        \cup {<<a, b, c>> : a \in EdgeBytes, b \in EdgeBytes, c \in EdgeBytes}

OpCodeValues ==
    {<<f[1], f[2], f[3], f[4], s, v[1], v[2], v[3]>> :
        f \in OperationFields, s \in {0, 255}, v \in VariantFields}

OpCodeNew ==
    /\ opc.state = "args"
    /\ opc' = [opc EXCEPT !.state = "code",
                            !.word = OpCode_new(opc.operation, opc.variants)]
    /\ UNCHANGED <<program, pc, stack, call_stack, register, output, status, steps,
                   overflow_checks, max, ir, last, gen, file, asm, dis, scope, budget>>

OpCodeFromUsize ==
    /\ opc.state = "value"
    /\ opc' = [opc EXCEPT !.state = "code", !.word = OpCode_from_usize(opc.word)]
    /\ UNCHANGED <<program, pc, stack, call_stack, register, output, status, steps,
                   overflow_checks, max, ir, last, gen, file, asm, dis, scope, budget>>

OpCodeSplit ==
    /\ opc.state = "code"
    /\ opc' = [opc EXCEPT !.state = "split", !.split = OpCode_split(opc.word)]
    /\ UNCHANGED <<program, pc, stack, call_stack, register, output, status, steps,
                   overflow_checks, max, ir, last, gen, file, asm, dis, scope, budget>>

InitOpCode ==
    /\ NoRun
    /\ overflow_checks = TRUE
    /\ opc \in {[NoCode EXCEPT !.state = "args", !.operation = a[1], !.variants = a[2]] :
                    a \in OpCodeArgs}
                \cup {[NoCode EXCEPT !.state = "value", !.word = w] : w \in OpCodeValues}
    /\ file = NoFile
    /\ asm = NoAsm
    /\ dis = NoDis
    /\ scope = NoScope
    /\ budget = NoBudget

NextOpCode == OpCodeNew \/ OpCodeFromUsize \/ OpCodeSplit

SpecOpCode == InitOpCode /\ [][NextOpCode]_vars

\* ------------------------------------------------------------- the claims

\* the instruction word step is about to decode, and its immediate words
Opcode == program[N(pc) + 1]

HasOperand(k) == N(pc) + k < Len(program)

Operand(k) == program[N(pc) + 1 + k]

\* the address of the word k words after the instruction word
Following(k) == wrapping_add(pc, W(k))

\* the k-th addressing mode of the word at address a (NoEnum when none decodes)
ModeAt(a, k) ==
    LET variants == OpCode_variants(program[a + 1])
    IN IF variants = Nothing THEN NoEnum ELSE variants[k]

Mode(k) == ModeAt(N(pc), k)

ReadModes == {"Direct", "Register", "Stack", "StackRelative"}

WriteModes == {"Register", "Stack", "StackRelative"}

\* read(m) of the semantics table, in the state before the step
Read(m, k) ==
    CASE m = "Direct" -> k
      [] m = "Register" -> register[N(k) + 1]
      [] m = "Stack" -> stack[Len(stack) - N(k)]
      [] m = "StackRelative" -> stack[N(k) + 1]

ArithOps == {"Add", "Sub", "Mult", "Div", "Mod"}

CmpOps == {"CmpEq", "CmpNe", "CmpGt", "CmpLt", "CmpGte", "CmpLte"}

\* the two operands and the words below them
Rhs == stack[Len(stack)]

Lhs == stack[Len(stack) - 1]

Below == SubSeq(stack, 1, Len(stack) - 2)

\* lhs op rhs modulo 2^64 (the divisor is not zero)
ArithResult(operation, lhs, rhs) ==
    CASE operation = "Add" -> wrapping_add(lhs, rhs)
      [] operation = "Sub" -> wrapping_sub(lhs, rhs)
      [] operation = "Mult" -> wrapping_mul(lhs, rhs)
      [] operation = "Div" -> word_div(lhs, rhs)
      [] operation = "Mod" -> word_rem(lhs, rhs)

\* lhs op rhs is not a 64-bit word
ArithOutOfRange(operation, lhs, rhs) ==
    CASE operation = "Add" -> add_overflows(lhs, rhs)
      [] operation = "Sub" -> Lt(lhs, rhs)
      [] operation = "Mult" -> mul_overflows(lhs, rhs)
      [] OTHER -> FALSE

ArithFatal(operation, lhs, rhs) ==
    \/ operation \in {"Div", "Mod"} /\ rhs = Zero
    \/ overflow_checks /\ ArithOutOfRange(operation, lhs, rhs)

\* lhs rel rhs on unsigned words
Rel(operation, lhs, rhs) ==
    CASE operation = "CmpEq" -> lhs = rhs
      [] operation = "CmpNe" -> ~(lhs = rhs)
      [] operation = "CmpGt" -> ~Le(lhs, rhs)
      [] operation = "CmpLt" -> ~Le(rhs, lhs)
      [] operation = "CmpGte" -> Le(rhs, lhs)
      [] operation = "CmpLte" -> Le(lhs, rhs)

\* run_max has used up its budget
BudgetSpent == max # NoMax /\ steps + 1 > max

\* the run loop is about to call step
Executing == status = "running" /\ ~BudgetSpent

\* the step is Call Direct / Call Native(id)
CallDirect == ir = "Call" /\ Mode(1) = "Direct" /\ HasOperand(1)

CallNative(id) == ir = "Call" /\ Mode(1) = "Native" /\ HasOperand(1) /\ Operand(1) = W(id)

\* the run of a generated program is at an emission point of main, in main's
\* own activation
AtMainPoint ==
    /\ gen.state = "generated"
    /\ status = "running"
    /\ call_stack = <<>>
    /\ InRange(pc, Len(program))
    /\ gen.points[N(pc) + 1].function = "main"

\* the generator's depth counter at the emission of the word at pc, since the
\* start of the function body
AccountedDepth == gen.points[N(pc) + 1].depth

\* C1: in the run of every program the generator emits, at every emission
\* point the operand-stack depth equals the generator's depth counter there,
\* both taken since the start of the enclosing function body.
C1_DepthMatchesCounter == AtMainPoint => W(Len(stack)) = AccountedDepth

\* a JmpIf of a generated program has run and main goes on
C1_Witness == AtMainPoint /\ last = "JmpIf"

\* C2: Call Direct(addr) pushes the address of the word after its immediate
\* word on the call stack and sets pc to addr, and Ret sets pc to the entry it
\* pops, so that execution resumes right after the call's immediate word.
C2_CallPushesFollowingPc ==
    [][/\ (Executing /\ CallDirect /\ status' = "running") =>
              /\ call_stack' = Append(call_stack, Following(2))
              /\ pc' = Operand(1)
       /\ (Executing /\ ir = "Ret" /\ status' = "running") =>
              /\ pc' = Last(call_stack)
              /\ call_stack' = Front(call_stack)]_vars

\* a Call Direct has completed and its return address is on the call stack
C2_Witness == last = "Call" /\ status = "running" /\ call_stack # <<>>

C4_ArithAlwaysPushes ==
    [][(Executing /\ ir \in ArithOps /\ Len(stack) >= 2) =>
           /\ status' = "running"
           /\ stack' = Append(Below, ArithResult(ir, Lhs, Rhs))]_vars

\* C4 (amended): the same, with lhs op rhs taken modulo 2^64, unless the step
\* is fatal: Div or Mod by zero, or, in a build with overflow checks, a result
\* of Add, Sub or Mult that is not a 64-bit word.
C4_ArithPushesOrFatal ==
    [][(Executing /\ ir \in ArithOps /\ Len(stack) >= 2) =>
           IF ArithFatal(ir, Lhs, Rhs) THEN status' = "panic"
           ELSE /\ status' = "running"
                /\ stack' = Append(Below, ArithResult(ir, Lhs, Rhs))
                /\ pc' = Following(1)]_vars

\* a Sub has completed and left a single non-zero difference
C4_Witness ==
    last = "Sub" /\ status = "running" /\ Len(stack) = 1 /\ stack[1] # Zero

\* C5: each Cmp operation on at least two words pops rhs then lhs and pushes
\* 1 if lhs rel rhs holds and 0 otherwise; it consumes no immediate word and
\* leaves the stack one word shorter.
C5_CmpPushesFlag ==
    [][(Executing /\ ir \in CmpOps /\ Len(stack) >= 2) =>
           /\ status' = "running"
           /\ stack' = Append(Below, IF Rel(ir, Lhs, Rhs) THEN W(1) ELSE W(0))
           /\ Last(stack') \in {W(0), W(1)}
           /\ Len(stack') = Len(stack) - 1
           /\ pc' = Following(1)]_vars

\* a comparison has completed and pushed 1
C5_Witness ==
    last \in CmpOps /\ status = "running" /\ stack # <<>> /\ Last(stack) = W(1)

\* the fetch finds pc past the end of the program
FetchPastEnd == ir = "End"

\* incrementing pc at the fetch overflows in a build with overflow checks
FetchOverflows == pc = MaxWord /\ overflow_checks

C7_PrintKeepsState ==
    [][(Executing /\ CallNative(NativeFunctions_Print) /\ stack # <<>>) =>
           /\ status' = "running"
           /\ output' = Append(output, Last(stack))
           /\ stack' = stack
           /\ call_stack' = call_stack
           /\ register' = register]_vars

\* Print has written the value that is still on top of the stack
C7_Witness ==
    /\ last = "Call" /\ status = "running"
    /\ output # <<>> /\ stack # <<>> /\ Last(output) = Last(stack)

\* the number of words an operation pops
Pops(operation) ==
    IF operation \in {"Pop", "Not"} THEN 1
    ELSE IF operation \in ArithOps \cup CmpOps THEN 2
    ELSE 0

\* C8: an instruction that pops more words than the operand stack holds ends
\* in a fatal error; Pop on an empty stack never completes as a normal step.
C8_UnderflowIsFatal ==
    [][(Executing /\ Len(stack) < Pops(ir)) => status' = "panic"]_vars

\* a Pop on the empty stack has completed as a normal step
C8_Witness == last = "Pop" /\ steps = 1 /\ status = "running" /\ stack = <<>>

\* the instruction's addressing mode is not one its operation accepts
BadMode ==
    \/ ir = "Push" /\ Mode(1) \notin ReadModes
    \/ ir = "Mov" /\ (Mode(1) \notin WriteModes \/ Mode(2) \notin ReadModes)
    \/ ir = "Dup" /\ Mode(1) # "Stack"
    \/ ir \in {"Jmp", "JmpIf"} /\ Mode(1) \notin ReadModes
    \/ ir = "Call" /\ Mode(1) \notin {"Direct", "Native"}

\* C9: an instruction whose addressing mode is not valid for its operation
\* ends in a fatal error in every state, JmpIf on a zero condition included.
C9_BadModeIsFatal ==
    [][(Executing /\ BadMode) => status' = "panic"]_vars

\* a JmpIf whose mode cannot be read has fallen through on a zero condition
C9_Witness ==
    /\ last = "JmpIf" /\ status = "running"
    /\ stack # <<>> /\ Last(stack) = Zero
    /\ IsSmall(pc) /\ N(pc) >= 2 /\ N(pc) - 2 < Len(program)
    /\ ModeAt(N(pc) - 2, 1) \notin ReadModes

\* C10: Div or Mod with a zero on top of the stack ends in a fatal error and
\* pushes nothing: the stack only loses the operands popped before the error.
C10_DivByZeroIsFatal ==
    [][(Executing /\ ir \in {"Div", "Mod"} /\ stack # <<>> /\ Last(stack) = Zero) =>
           /\ status' = "panic"
           /\ Len(stack') < Len(stack)
           /\ stack' = SubSeq(stack, 1, Len(stack'))]_vars

\* 1 / 0 has ended in a panic with both operands popped
C10_Witness ==
    /\ program = <<OpCode_new("Push", <<"Direct", "None", "None">>), W(1),
                   OpCode_new("Push", <<"Direct", "None", "None">>), W(0),
                   OpCode_new("Div", NoVariants)>>
    /\ last = "Div" /\ status = "panic" /\ stack = <<>>


\* ---------------------------------------------------- the container codec
\* shared/src/fileformat.rs: FileFormat::encode and FileFormat::decode. A byte
\* vector is a sequence of numbers 0..255.

\* `word as u8`
as_u8(w) == w[8]

\* fault: the bytes least significant first
usize_to_u8_vec_le(data) ==
    <<as_u8(And(Shr(data, 0), W(255))), as_u8(And(Shr(data, 1), W(255))),
      as_u8(And(Shr(data, 2), W(255))), as_u8(And(Shr(data, 3), W(255))),
      as_u8(And(Shr(data, 4), W(255))), as_u8(And(Shr(data, 5), W(255))),
      as_u8(And(Shr(data, 6), W(255))), as_u8(And(Shr(data, 7), W(255)))>>

usize_to_u8_vec(data) ==
    <<as_u8(And(Shr(data, 7), W(255))), as_u8(And(Shr(data, 6), W(255))),
      as_u8(And(Shr(data, 5), W(255))), as_u8(And(Shr(data, 4), W(255))),
      as_u8(And(Shr(data, 3), W(255))), as_u8(And(Shr(data, 2), W(255))),
      as_u8(And(Shr(data, 1), W(255))), as_u8(And(Shr(data, 0), W(255)))>>

\* for i in 0..8: res |= (*val as usize) << 8 * (7 - i), Err when data.get(i) is None
RECURSIVE u8_vec_to_usize_from(_, _, _)
u8_vec_to_usize_from(data, i, res) ==
    IF i = WordBytes THEN [res |-> "Ok", value |-> res]
    ELSE IF i + 1 > Len(data) THEN [res |-> "Err", value |-> Zero]
    ELSE u8_vec_to_usize_from(data, i + 1, Or(res, Shl(W(data[i + 1]), 7 - i)))

u8_vec_to_usize(data) == u8_vec_to_usize_from(data, 0, Zero)

RECURSIVE FileFormat_encode_from(_, _, _)
FileFormat_encode_from(program_, i, res) ==
    IF i > Len(program_) THEN res
    ELSE FileFormat_encode_from(program_, i + 1, res \o usize_to_u8_vec(program_[i]))

FileFormat_encode(program_) == FileFormat_encode_from(program_, 1, <<>>)

\* if l == 8 { program.push(Self::u8_vec_to_usize(&d)?); d.clear(); }
decode_flush(r) ==
    IF r.res = "Ok" /\ Len(r.d) = WordBytes
    THEN IF u8_vec_to_usize(r.d).res = "Ok"
         THEN [r EXCEPT !.program = Append(r.program, u8_vec_to_usize(r.d).value),
                        !.d = <<>>]
         ELSE [r EXCEPT !.res = "Err"]
    ELSE r

decode_push(r, byte) == IF r.res = "Ok" THEN [r EXCEPT !.d = Append(r.d, byte)] ELSE r

\* for byte in data
RECURSIVE decode_loop(_, _, _)
decode_loop(data, i, r) ==
    IF i > Len(data) \/ r.res # "Ok" THEN r
    ELSE decode_loop(data, i + 1, decode_push(decode_flush(r), data[i]))

\* fault: bytes left over after the last group are an error
decode_end_strict(r) ==
    IF r.res = "Ok" /\ Len(r.d) # WordBytes /\ Len(r.d) # 0
    THEN [res |-> "Err", program |-> <<>>]
    ELSE [res |-> decode_flush(r).res, program |-> decode_flush(r).program]

\* the last group, then Ok(Self::new(program))
decode_end(r) == [res |-> decode_flush(r).res, program |-> decode_flush(r).program]

FileFormat_decode(data) ==
    decode_end(decode_loop(data, 1, [res |-> "Ok", program |-> <<>>, d |-> <<>>]))

\* words with distinct bytes, with the top bit set, with every bit set
FileWords ==
    {Zero, W(1), MaxWord, <<1, 2, 3, 4, 5, 6, 7, 8>>, <<128, 0, 0, 0, 0, 0, 255, 0>>}

RECURSIVE WordSeqs(_)
WordSeqs(n) ==
    IF n = 0 THEN {<<>>}
    ELSE WordSeqs(n - 1) \cup {Append(q, w) : q \in WordSeqs(n - 1), w \in FileWords}

\* the bytes of the words of a sequence, one after the other
RECURSIVE Flatten(_)
Flatten(q) == IF q = <<>> THEN <<>> ELSE Head(q) \o Flatten(Tail(q))

\* byte vectors of every length up to WordBytes * MaxWords
FileBytes ==
    UNION {{SubSeq(Flatten(q), 1, n) : n \in 0..(WordBytes * Len(q))} :
               q \in WordSeqs(MaxWords)}

Encode ==
    /\ file.state = "program"
    /\ file' = [file EXCEPT !.state = "encoded", !.bytes = FileFormat_encode(file.data)]
    /\ UNCHANGED <<program, pc, stack, call_stack, register, output, status, steps,
                   overflow_checks, max, ir, last, gen, opc, asm, dis, scope, budget>>

Decode ==
    /\ file.state \in {"encoded", "bytes"}
    /\ file' = [file EXCEPT !.state = "decoded", !.decoded = FileFormat_decode(file.bytes),
                            !.from = file.state]
    /\ UNCHANGED <<program, pc, stack, call_stack, register, output, status, steps,
                   overflow_checks, max, ir, last, gen, opc, asm, dis, scope, budget>>

InitFile ==
    /\ NoRun
    /\ overflow_checks = TRUE
    /\ opc = NoCode
    /\ file \in {[NoFile EXCEPT !.state = "program", !.data = q] : q \in WordSeqs(MaxWords)}
                \cup {[NoFile EXCEPT !.state = "bytes", !.bytes = b] : b \in FileBytes}
    /\ asm = NoAsm
    /\ dis = NoDis
    /\ scope = NoScope
    /\ budget = NoBudget

NextFile == Encode \/ Decode

SpecFile == InitFile /\ [][NextFile]_vars



\* ------------------------------------------------------------ assembler
\* asm/src/assembler.rs. The lexer is the sequence of the tokens it has yet to
\* give, the EoF token last. A token is its type and its value; the value of a
\* Number token is held in digits, as its decimal digits.

Token(type_, value_) == [type |-> type_, value |-> value_, digits |-> <<>>]

NoToken == Token("None", "")

\* str::parse::<usize> of decimal digits: Err when the number does not fit
RECURSIVE parse_usize_from(_, _, _)
parse_usize_from(digits, i, acc) ==
    IF i > Len(digits) THEN [res |-> "Ok", value |-> acc]
    ELSE IF mul_overflows(acc, W(10)) THEN [res |-> "Err", value |-> Zero]
    ELSE IF add_overflows(wrapping_mul(acc, W(10)), W(digits[i]))
    THEN [res |-> "Err", value |-> Zero]
    ELSE parse_usize_from(digits, i + 1,
                          wrapping_add(wrapping_mul(acc, W(10)), W(digits[i])))

parse_usize(digits) == parse_usize_from(digits, 1, Zero)

Assembler_new(lexer) ==
    IF Len(lexer) = 0
    THEN [lexer |-> <<>>, current |-> NoToken, labels |-> <<>>,
          unresolved_labels |-> <<>>, program |-> <<>>, res |-> "Lexer was empty"]
    ELSE [lexer |-> Tail(lexer), current |-> Head(lexer), labels |-> <<>>,
          unresolved_labels |-> <<>>, program |-> <<>>, res |-> "Ok"]

\* a method of the assembler returns the assembler and its value; an Err is
\* kept in res of the assembler and nothing more of the assembler runs
Returns(a, value_) == [a |-> a, value |-> value_]

Err(a, res_, value_) == [a |-> [a EXCEPT !.res = res_], value |-> value_]

Assembler_advance(a) ==
    IF a.res # "Ok" THEN Returns(a, NoToken)
    ELSE IF Len(a.lexer) = 0 THEN Err(a, "Ran out of tokens", NoToken)
    ELSE Returns([a EXCEPT !.current = Head(a.lexer), !.lexer = Tail(a.lexer)],
                 a.current)

eat(a, expected) ==
    IF a.res # "Ok" THEN Returns(a, NoToken)
    ELSE IF a.current.type = expected THEN Assembler_advance(a)
    ELSE Err(a, "Expected", NoToken)

\* enum Operand: kind is the variant, value its number or its name
AsmOperand(kind_, value_) == [kind |-> kind_, value |-> value_]

NoAsmOperand == AsmOperand("None", Zero)

as_variant(operand) ==
    CASE operand.kind = "Register" -> "Register"
      [] operand.kind = "Direct" -> "Direct"
      [] operand.kind = "Stack" -> "Stack"
      [] operand.kind = "StackRelative" -> Variant_StackAbsoulute
      [] operand.kind = "Native" -> "Native"
      [] OTHER -> NoEnum

\* as_usize is Ok for these kinds
as_usize_ok(operand) == operand.kind \in {"Register", "Direct", "Stack", "StackRelative"}

capture_operand_number(a, token) ==
    IF parse_usize(token.digits).res = "Ok"
    THEN Returns(a, AsmOperand("Direct", parse_usize(token.digits).value))
    ELSE Err(a, "is not a valid number", NoAsmOperand)

capture_operand_close(id, num, r) ==
    IF r.a.res # "Ok" THEN Returns(r.a, NoAsmOperand)
    ELSE CASE id.value = "s" -> Returns(r.a, AsmOperand("Stack", num))
           [] id.value = "sa" -> Returns(r.a, AsmOperand("StackRelative", num))
           [] id.value = "r" -> Returns(r.a, AsmOperand("Register", num))
           [] OTHER -> Err(r.a, "Unknown operation", NoAsmOperand)

capture_operand_index(id, r) ==
    IF r.a.res # "Ok" THEN Returns(r.a, NoAsmOperand)
    ELSE IF parse_usize(r.value.digits).res # "Ok"
    THEN Err(r.a, "is not a valid number", NoAsmOperand)
    ELSE capture_operand_close(id, parse_usize(r.value.digits).value, eat(r.a, "RParen"))

capture_operand_paren(id, r) ==
    IF r.a.res # "Ok" THEN Returns(r.a, NoAsmOperand)
    ELSE capture_operand_index(id, eat(r.a, "Number"))

capture_operand_name(kind, r) ==
    IF r.a.res # "Ok" THEN Returns(r.a, NoAsmOperand)
    ELSE Returns(r.a, AsmOperand(kind, r.value.value))

capture_operand_match(r) ==
    IF r.a.res # "Ok" THEN Returns(r.a, NoAsmOperand)
    ELSE CASE r.value.type = "Number" -> capture_operand_number(r.a, r.value)
           [] r.value.type = "Identifier" ->
                 capture_operand_paren(r.value, eat(r.a, "LParen"))
           [] r.value.type = "Dot" -> capture_operand_name("Label", eat(r.a, "Identifier"))
           [] r.value.type = "Dollar" ->
                 capture_operand_name("Native", eat(r.a, "Identifier"))
           [] OTHER -> Err(r.a, "Operand cant start with", NoAsmOperand)

capture_operand(a) == capture_operand_match(Assembler_advance(a))

handle_mov_emit(first, r) ==
    IF r.a.res # "Ok" THEN Returns(r.a, <<>>)
    ELSE IF as_variant(first) = NoEnum \/ as_variant(r.value) = NoEnum
    THEN Err(r.a, "Operand cant be a variant", <<>>)
    ELSE IF ~as_usize_ok(first) \/ ~as_usize_ok(r.value)
    THEN Err(r.a, "Operand cant be a usize", <<>>)
    ELSE Returns(r.a, <<OpCode_new("Mov", variants2(as_variant(first), as_variant(r.value))),
                       first.value, r.value.value>>)

handle_mov_second(first, r) ==
    IF r.a.res # "Ok" THEN Returns(r.a, <<>>)
    ELSE handle_mov_emit(first, capture_operand(r.a))

handle_mov_comma(r) ==
    IF r.a.res # "Ok" THEN Returns(r.a, <<>>)
    ELSE handle_mov_second(r.value, eat(r.a, "Comma"))

handle_mov(a) == handle_mov_comma(capture_operand(a))

handle_cmp(a, operation) == Returns(a, <<OpCode_new(operation, NoVariants)>>)

\* the opcode word of operation with the variant of the operand, then the operand
emit_operand(operation, r) ==
    IF r.a.res # "Ok" THEN Returns(r.a, <<>>)
    ELSE IF as_variant(r.value) = NoEnum THEN Err(r.a, "Operand cant be a variant", <<>>)
    ELSE IF ~as_usize_ok(r.value) THEN Err(r.a, "Operand cant be a usize", <<>>)
    ELSE Returns(r.a, <<OpCode_new(operation, variants1(as_variant(r.value))),
                       r.value.value>>)

handle_push(a) == emit_operand("Push", capture_operand(a))

handle_zero_operands(a, operation) == Returns(a, <<op(operation, NoVariants)>>)

\* self.labels.get(name): the index of the entry, 0 for None
labels_get(labels, name) == functions_find(labels, name, 1)

\* self.labels.insert(name, addr)
labels_insert(labels, name, addr) == functions_insert(labels, name, addr)

UnresolvedLabel(label_, location_) == [label |-> label_, location |-> location_]

handle_jmp_label(a, operation, label) ==
    IF labels_get(a.labels, label) # 0
    THEN Returns(a, <<OpCode_new(operation, variants1("Direct")),
                      a.labels[labels_get(a.labels, label)].addr>>)
    ELSE Returns([a EXCEPT !.unresolved_labels =
                               Append(@, UnresolvedLabel(label, Len(a.program) + 1))],
                 <<OpCode_new(operation, variants1("Direct")), W(17)>>)

handle_jmp_match(operation, r) ==
    IF r.a.res # "Ok" THEN Returns(r.a, <<>>)
    ELSE IF r.value.kind = "Label" THEN handle_jmp_label(r.a, operation, r.value.value)
    ELSE emit_operand(operation, r)

handle_jmp(a, operation) == handle_jmp_match(operation, capture_operand(a))

handle_call_label(a, label) ==
    IF labels_get(a.labels, label) # 0
    THEN Returns(a, <<OpCode_new("Call", variants1("Direct")),
                      a.labels[labels_get(a.labels, label)].addr>>)
    ELSE Returns([a EXCEPT !.unresolved_labels =
                               Append(@, UnresolvedLabel(label, Len(a.program)))],
                 <<OpCode_new("Call", variants1("Direct")), Zero>>)

\* fault: the native function is called as the address of its number
handle_call_native_direct(a, name) ==
    IF NativeFunctions_from_string(name) = -1
    THEN Err(a, "Unknown native function", <<>>)
    ELSE Returns(a, <<OpCode_new("Call", variants1("Direct")),
                      W(NativeFunctions_from_string(name))>>)

handle_call_native(a, name) ==
    IF NativeFunctions_from_string(name) = -1
    THEN Err(a, "Unknown native function", <<>>)
    ELSE Returns(a, <<OpCode_new("Call", variants1("Native")),
                      W(NativeFunctions_from_string(name))>>)

handle_call_match(r) ==
    IF r.a.res # "Ok" THEN Returns(r.a, <<>>)
    ELSE IF r.value.kind = "Label" THEN handle_call_label(r.a, r.value.value)
    ELSE IF r.value.kind = "Native" THEN handle_call_native(r.a, r.value.value)
    ELSE emit_operand("Call", r)

handle_call(a) == handle_call_match(capture_operand(a))

handle_instruction_match(r) ==
    IF r.a.res # "Ok" THEN Returns(r.a, <<>>)
    ELSE CASE r.value.value = "mov" -> handle_mov(r.a)
           [] r.value.value = "push" -> handle_push(r.a)
           [] r.value.value = "dup" -> handle_zero_operands(r.a, "Dup")
           [] r.value.value = "add" -> handle_zero_operands(r.a, "Add")
           [] r.value.value = "sub" -> handle_zero_operands(r.a, "Sub")
           [] r.value.value = "mult" -> handle_zero_operands(r.a, "Mult")
           [] r.value.value = "div" -> handle_zero_operands(r.a, "Div")
           [] r.value.value = "mod" -> handle_zero_operands(r.a, "Mod")
           [] r.value.value = "jmp" -> handle_jmp(r.a, "Jmp")
           [] r.value.value = "jmp_if" -> handle_jmp(r.a, "JmpIf")
           [] r.value.value = "cmp_eq" -> handle_cmp(r.a, "CmpEq")
           [] r.value.value = "cmp_ne" -> handle_cmp(r.a, "CmpNe")
           [] r.value.value = "cmp_gt" -> handle_cmp(r.a, "CmpGt")
           [] r.value.value = "cmp_lt" -> handle_cmp(r.a, "CmpLt")
           [] r.value.value = "cmp_gte" -> handle_cmp(r.a, "CmpGte")
           [] r.value.value = "cmp_lte" -> handle_cmp(r.a, "CmpLte")
           [] r.value.value = "call" -> handle_call(r.a)
           [] r.value.value = "ret" -> handle_zero_operands(r.a, "Ret")
           [] r.value.value = "not" -> handle_zero_operands(r.a, "Not")
           [] r.value.value = "swap" -> handle_zero_operands(r.a, "Swap")
           [] r.value.value = "pop" -> handle_zero_operands(r.a, "Pop")
           [] OTHER -> Err(r.a, "Unknown instruction", <<>>)

handle_instruction(a) == handle_instruction_match(eat(a, "Identifier"))

\* self.eat(TokenType::Colon)?; self.labels.insert(label.value, self.program.len())
next_label_insert(label, r) ==
    IF r.a.res # "Ok" THEN Returns(r.a, <<>>)
    ELSE Returns([r.a EXCEPT !.labels =
                                 labels_insert(@, label.value, W(Len(r.a.program)))], <<>>)

next_label_colon(r) ==
    IF r.a.res # "Ok" THEN Returns(r.a, <<>>)
    ELSE next_label_insert(r.value, eat(r.a, "Colon"))

next_label(r) ==
    IF r.a.res # "Ok" THEN Returns(r.a, <<>>)
    ELSE next_label_colon(eat(r.a, "Identifier"))

Assembler_next(a) ==
    CASE a.current.type = "Dot" -> next_label(eat(a, "Dot"))
      [] a.current.type = "Identifier" -> handle_instruction(a)
      [] OTHER -> Err(a, "dwajdkaw", <<>>)

\* fault: a reference to a label that has no address is left as it was emitted
RECURSIVE resolve_labels_lenient(_, _)
resolve_labels_lenient(a, i) ==
    IF i > Len(a.unresolved_labels) THEN a
    ELSE IF labels_get(a.labels, a.unresolved_labels[i].label) = 0
    THEN resolve_labels_lenient(a, i + 1)
    ELSE resolve_labels_lenient(
             [a EXCEPT !.program[a.unresolved_labels[i].location + 1] =
                           a.labels[labels_get(a.labels, a.unresolved_labels[i].label)].addr],
             i + 1)

\* for label in &self.unresolved_labels, from the i-th on
RECURSIVE resolve_labels_from(_, _)
resolve_labels_from(a, i) ==
    IF i > Len(a.unresolved_labels) THEN a
    ELSE IF labels_get(a.labels, a.unresolved_labels[i].label) = 0
    THEN [a EXCEPT !.res = "Couldn't find label"]
    ELSE resolve_labels_from(
             [a EXCEPT !.program[a.unresolved_labels[i].location + 1] =
                           a.labels[labels_get(a.labels, a.unresolved_labels[i].label)].addr],
             i + 1)

resolve_labels(a) == resolve_labels_from(a, 1)


\* the statement at the head of the tokens is the definition of a label
DefinesLabel(a) ==
    /\ a.current.type = "Dot"
    /\ Len(a.lexer) >= 2
    /\ a.lexer[1].type = "Identifier"
    /\ a.lexer[2].type = "Colon"

\* the statement at the head of the tokens is a jmp, jmp_if or call of a label
RefersLabel(a) ==
    /\ a.current.type = "Identifier"
    /\ a.current.value \in {"jmp", "jmp_if", "call"}
    /\ Len(a.lexer) >= 2
    /\ a.lexer[1].type = "Dot"
    /\ a.lexer[2].type = "Identifier"

\* what next was called on and what it returned
ItemOf(a, r) ==
    [mnemonic |-> IF a.current.type = "Identifier" THEN a.current.value ELSE "",
     res |-> r.a.res, words |-> r.value]

\* the definitions and the references of labels so far, with their offsets
DefsAfter(a, defs) ==
    IF DefinesLabel(a)
    THEN Append(defs, [name |-> a.lexer[1].value, offset |-> Len(a.program)])
    ELSE defs

RefsAfter(a, refs) ==
    IF RefersLabel(a)
    THEN Append(refs, [mnemonic |-> a.current.value, label |-> a.lexer[2].value,
                       offset |-> Len(a.program)])
    ELSE refs

\* let mut asm = Assembler::new(lexer).unwrap()
AssemblerNew ==
    /\ asm.state = "source"
    /\ asm' = [asm EXCEPT !.state = "assembling", !.a = Assembler_new(asm.source)]
    /\ UNCHANGED <<program, pc, stack, call_stack, register, output, status, steps,
                   overflow_checks, max, ir, last, gen, opc, file, dis, scope, budget>>

\* one turn of the loop of assemble: next()?, then the append
AssembleNext ==
    /\ asm.state = "assembling"
    /\ asm.a.current.type # "EoF"
    /\ \E r \in {Assembler_next(asm.a)} :
           asm' = IF r.a.res = "Ok"
                  THEN [asm EXCEPT !.a = [r.a EXCEPT !.program = @ \o r.value],
                                   !.item = ItemOf(asm.a, r),
                                   !.defs = DefsAfter(asm.a, @),
                                   !.refs = RefsAfter(asm.a, @)]
                  ELSE [asm EXCEPT !.state = "failed", !.a = r.a,
                                   !.item = ItemOf(asm.a, r)]
    /\ UNCHANGED <<program, pc, stack, call_stack, register, output, status, steps,
                   overflow_checks, max, ir, last, gen, opc, file, dis, scope, budget>>

\* the end of assemble: resolve_labels()?, Ok(self.program.clone()); then the
\* program is given to VM::new
AssembleResolve ==
    /\ asm.state = "assembling"
    /\ asm.a.current.type = "EoF"
    /\ \E a \in {resolve_labels(asm.a)} :
           IF a.res = "Ok"
           THEN LET vm == VM_new(a.program, Zero)
                IN /\ asm' = [asm EXCEPT !.state = "assembled", !.a = a, !.ended = TRUE,
                                         !.unpatched = asm.a.program,
                                         !.result = [some |-> TRUE, program |-> a.program]]
                   /\ program' = vm.program
                   /\ pc' = vm.pc
                   /\ stack' = vm.stack
                   /\ call_stack' = vm.call_stack
                   /\ register' = vm.register
                   /\ status' = "running"
                   /\ ir' = Dispatch([program |-> vm.program, pc |-> vm.pc,
                                      checks |-> overflow_checks, panic |-> FALSE])
           ELSE /\ asm' = [asm EXCEPT !.state = "failed", !.a = a, !.ended = TRUE,
                                      !.unpatched = asm.a.program]
                /\ UNCHANGED <<program, pc, stack, call_stack, register, status, ir>>
    /\ UNCHANGED <<output, steps, overflow_checks, max, last, gen, opc, file, dis, scope, budget>>

\* tokens
Id(name) == Token("Identifier", name)

Num(digits_) == [type |-> "Number", value |-> "", digits |-> digits_]

Dot == Token("Dot", ".")

Colon == Token("Colon", ":")

Comma == Token("Comma", ",")

Dollar == Token("Dollar", "$")

LParen == Token("LParen", "(")

RParen == Token("RParen", ")")

EoF == Token("EoF", "EOF")

LabelDef(name) == <<Dot, Id(name), Colon>>

LabelRef(mnemonic, name) == <<Id(mnemonic), Dot, Id(name)>>

Indexed(kind, digits) == <<Id(kind), LParen, Num(digits), RParen>>

\* the statements of the sources with labels
LabelItems ==
    {LabelDef("a"), LabelDef("b"), LabelRef("jmp", "a"), LabelRef("jmp_if", "a"),
     LabelRef("call", "a"), LabelRef("call", "b"), <<Id("push"), Num(<<1>>)>>,
     <<Id("ret")>>}

\* the mnemonics of handle_instruction and of Operation::from_asm, and two
\* identifiers of neither
Identifiers ==
    {"mov", "push", "dup", "add", "sub", "mult", "div", "mod", "jmp", "jmp_if",
     "cmp_eq", "cmp_ne", "cmp_gt", "cmp_lt", "cmp_gte", "cmp_lte", "call", "ret",
     "not", "swap", "pop", "nop", "halt", "s"}

\* 2^64 - 1 and 2^64 in decimal
MaxDigits == <<1, 8, 4, 4, 6, 7, 4, 4, 0, 7, 3, 7, 0, 9, 5, 5, 1, 6, 1, 5>>

OverDigits == <<1, 8, 4, 4, 6, 7, 4, 4, 0, 7, 3, 7, 0, 9, 5, 5, 1, 6, 1, 6>>

\* operands, well formed and not
Operands ==
    {<<Num(<<7>>)>>, <<Num(<<0>>)>>, <<Num(<<2, 5, 6>>)>>, <<Num(MaxDigits)>>,
     <<Num(OverDigits)>>, Indexed("s", <<0>>), Indexed("sa", <<1>>), Indexed("r", <<2>>),
     Indexed("x", <<0>>), Indexed("r", OverDigits), <<Id("r"), LParen, Num(<<1>>)>>,
     <<Id("r"), Num(<<1>>)>>, <<Id("r"), LParen, RParen>>, <<Dot, Id("a")>>, <<Dot, Num(<<1>>)>>,
     <<Dollar, Id("print")>>, <<Dollar, Id("exit")>>, <<Dollar, Id("nope")>>,
     <<Dollar, Num(<<1>>)>>, <<Comma>>, <<>>}

\* one statement: a mnemonic with no, one or two operands
Statement1 ==
    {<<Id(m)>> \o o : m \in Identifiers, o \in Operands}
        \cup {<<Id("mov")>> \o o1 \o <<Comma>> \o o2 :
                 o1 \in {Indexed("r", <<0>>), <<Num(<<1>>)>>, <<Dot, Id("a")>>},
                 o2 \in {Indexed("s", <<0>>), <<Num(<<2>>)>>, <<Dollar, Id("print")>>}}
        \cup {<<Id("mov")>> \o Indexed("r", <<0>>) \o <<Num(<<1>>)>>,
              <<Dot, Id("a")>>, <<Dot, Colon>>, <<Colon>>, <<Num(<<1>>)>>, <<>>}

\* the source of scenario S4, as the lexer gives it
S4 ==
    LabelDef("start") \o <<Id("push"), Num(<<5>>), Id("push"), Num(<<3>>), Id("add"),
                           Id("call"), Dollar, Id("print"), Id("call"), Dollar, Id("exit")>>

RECURSIVE Concat(_)
Concat(q) == IF Len(q) = 0 THEN <<>> ELSE Head(q) \o Concat(Tail(q))

AsmSources ==
    {Concat(q) \o <<EoF>> : q \in Seqs(LabelItems, MaxItems)}
        \cup {<<Id("push"), Num(<<1>>)>> \o t \o <<EoF>> : t \in Statement1}
        \cup {S4 \o <<EoF>>}

InitAsm ==
    /\ NoRun
    /\ overflow_checks \in BOOLEAN
    /\ opc = NoCode
    /\ file = NoFile
    /\ asm \in {[NoAsm EXCEPT !.state = "source", !.source = t] : t \in AsmSources}
    /\ dis = NoDis
    /\ scope = NoScope
    /\ budget = NoBudget

NextAsm == AssemblerNew \/ AssembleNext \/ AssembleResolve \/ Step

SpecAsm == InitAsm /\ [][NextAsm]_vars



\* ----------------------------------------------------------------- lexer
\* shared/src/lexer.rs. The data of the lexer is a sequence of characters, each
\* a string of length one; the line and the column, which only the messages
\* of errors use, are left out. A lexer that has panicked (an index past the
\* end of the data) has panic TRUE.

DigitChars == <<"0", "1", "2", "3", "4", "5", "6", "7", "8", "9">>

LetterChars ==
    {"a", "b", "c", "d", "e", "f", "g", "h", "i", "j", "k", "l", "m", "n", "o", "p", "q",
     "r", "s", "t", "u", "v", "w", "x", "y", "z", "A", "B", "C", "D", "E", "F", "G", "H",
     "I", "J", "K", "L", "M", "N", "O", "P", "Q", "R", "S", "T", "U", "V", "W", "X", "Y",
     "Z"}

\* char::is_numeric, is_alphabetic, is_alphanumeric, is_whitespace on ASCII
is_numeric(c) == \E d \in 1..Len(DigitChars) : DigitChars[d] = c

digit_of(c) == (CHOOSE d \in 1..Len(DigitChars) : DigitChars[d] = c) - 1

is_alphabetic(c) == c \in LetterChars

is_alphanumeric(c) == is_alphabetic(c) \/ is_numeric(c)

is_whitespace(c) == c \in {" ", "\n", "\t", "\r"}

Lexer_new(data_) == [data |-> data_, i |-> 0, has_eof |-> FALSE, panic |-> FALSE]

\* self.data[self.i] is in bounds
InData(lx) == lx.i < Len(lx.data)

\* The loops below hand the state of a turn to the next turn through a set
\* of one element, which makes TLC evaluate it once.

current_as_char(lx) == lx.data[lx.i + 1]

LexerPanic(lx) == [lx EXCEPT !.panic = TRUE]

\* check_newline reads self.data[self.i]; self.i += 1
Lexer_advance(lx) ==
    IF lx.panic \/ ~InData(lx) THEN LexerPanic(lx) ELSE [lx EXCEPT !.i = @ + 1]

RECURSIVE skip_whitespace(_)
skip_whitespace(lx) ==
    IF lx.panic \/ ~InData(lx) THEN LexerPanic(lx)
    ELSE IF ~is_whitespace(current_as_char(lx)) THEN lx
    ELSE IF lx.i = Len(lx.data) - 1 THEN lx
    ELSE CHOOSE res \in {skip_whitespace(n) : n \in {Lexer_advance(lx)}} : TRUE

RECURSIVE skip_comment(_)
skip_comment(lx) ==
    IF lx.panic \/ ~InData(lx) THEN LexerPanic(lx)
    ELSE IF current_as_char(lx) = "\n" THEN lx
    ELSE CHOOSE res \in {skip_comment(n) : n \in {Lexer_advance(lx)}} : TRUE

\* the type of the token of one character, "None" for None
get_char_token(c) ==
    CASE c = ":" -> "Colon" [] c = "=" -> "Equal" [] c = "{" -> "LCurly"
      [] c = "}" -> "RCurly" [] c = "(" -> "LParen" [] c = ")" -> "RParen"
      [] c = "," -> "Comma" [] c = "." -> "Dot" [] c = "$" -> "Dollar"
      [] c = "+" -> "Plus" [] c = "-" -> "Dash" [] c = "*" -> "Times"
      [] c = "/" -> "Slash" [] c = "<" -> "LessThan" [] c = ">" -> "GreaterThan"
      [] c = "%" -> "Percent" [] OTHER -> "None"

Lexed(lx_, token_) == [lx |-> lx_, token |-> token_]

\* the character an escape stands for, "" when the escape is unknown
escaped(c) ==
    CASE c = "\\" -> "\\" [] c = "n" -> "\n" [] c = "t" -> "\t" [] c = "r" -> "\r"
      [] OTHER -> ""

\* one turn of the loop of capture_string, lx behind the advance of the turn
RECURSIVE capture_string(_, _)
capture_string_turn(lx, string) ==
    IF lx.panic \/ ~InData(lx) THEN Lexed(LexerPanic(lx), NoToken)
    ELSE IF current_as_char(lx) = "\""
    THEN Lexed(Lexer_advance(lx), Token("String", string))
    ELSE IF current_as_char(lx) # "\\" THEN capture_string(lx, string \o current_as_char(lx))
    ELSE IF lx.i + 1 >= Len(lx.data) \/ escaped(lx.data[lx.i + 2]) = ""
    THEN Lexed(LexerPanic(lx), NoToken)
    ELSE capture_string(Lexer_advance(lx), string \o escaped(lx.data[lx.i + 2]))

capture_string(lx, string) ==
    CHOOSE res \in {capture_string_turn(n, s) : n \in {Lexer_advance(lx)}, s \in {string}} :
        TRUE

RECURSIVE capture_number(_, _)
capture_number(lx, number) ==
    IF lx.panic \/ ~InData(lx) THEN Lexed(LexerPanic(lx), NoToken)
    ELSE IF is_numeric(current_as_char(lx))
    THEN CHOOSE res \in {capture_number(n, s) :
                             n \in {Lexer_advance(lx)},
                             s \in {Append(number, digit_of(current_as_char(lx)))}} : TRUE
    ELSE Lexed(lx, [type |-> "Number", value |-> "", digits |-> number])

RECURSIVE capture_identifier(_, _)
capture_identifier(lx, string) ==
    IF lx.panic \/ ~InData(lx) THEN Lexed(LexerPanic(lx), NoToken)
    ELSE IF is_alphanumeric(current_as_char(lx)) \/ current_as_char(lx) \in {"_", "-"}
    THEN CHOOSE res \in {capture_identifier(n, s) :
                             n \in {Lexer_advance(lx)},
                             s \in {string \o current_as_char(lx)}} : TRUE
    ELSE Lexed(lx, Token("Identifier", string))

\* if self.current_as_char() == ';' { self.skip_comment() }
skip_if_comment(lx) ==
    IF lx.panic \/ ~InData(lx) THEN LexerPanic(lx)
    ELSE IF current_as_char(lx) = ";" THEN skip_comment(lx)
    ELSE lx

\* Iterator::next; the token is NoToken for None and after a panic
RECURSIVE Lexer_next(_)
RECURSIVE Lexer_next_token(_)
Lexer_next(lx) ==
    IF lx.panic THEN Lexed(lx, NoToken)
    ELSE IF InData(lx)
    THEN CHOOSE res \in {Lexer_next_token(n) : n \in {skip_if_comment(skip_whitespace(lx))}} :
             TRUE
    ELSE IF lx.has_eof THEN Lexed(lx, NoToken)
    ELSE Lexed([lx EXCEPT !.has_eof = TRUE], Token("EoF", "EOF"))

\* one turn of the loop of next, behind the whitespace and the comment
Lexer_next_token(lx) ==
    IF lx.panic THEN Lexed(lx, NoToken)
    ELSE IF get_char_token(current_as_char(lx)) # "None"
    THEN Lexed(Lexer_advance(lx),
               Token(get_char_token(current_as_char(lx)), current_as_char(lx)))
    ELSE IF current_as_char(lx) = "\"" THEN capture_string(lx, "")
    ELSE IF is_numeric(current_as_char(lx)) THEN capture_number(lx, <<>>)
    ELSE IF is_alphabetic(current_as_char(lx)) THEN capture_identifier(lx, "")
    ELSE CHOOSE res \in {Lexer_next(n) : n \in {Lexer_advance(lx)}} : TRUE

\* the token of a call of next that panics
PanicToken == Token("Panic", "")

\* the tokens the lexer gives, one call of next after the other; a panic of
\* the lexer is the last of them
RECURSIVE Lexer_tokens(_)
Lexer_tokens_behind(r) ==
    IF r.lx.panic THEN <<PanicToken>>
    ELSE IF r.token.type = "None" THEN <<>>
    ELSE <<r.token>> \o Lexer_tokens(r.lx)

Lexer_tokens(lx) == CHOOSE res \in {Lexer_tokens_behind(r) : r \in {Lexer_next(lx)}} : TRUE

\* Lexer::new_from_path(path) on a file of these characters, as its tokens
Lexer_new_from_path(data) == Lexer_tokens(Lexer_new(data))

\* the loop of assemble from a on, then resolve_labels
RECURSIVE assemble_from(_)
\* self.program.append(&mut instructions)
assemble_append(r) ==
    IF r.a.res # "Ok" THEN r.a
    ELSE CHOOSE res \in {assemble_from(a) : a \in {[r.a EXCEPT !.program = @ \o r.value]}} :
             TRUE

assemble_from(a) ==
    IF a.res # "Ok" THEN a
    ELSE IF a.current.type = "EoF" THEN resolve_labels(a)
    ELSE CHOOSE res \in {assemble_append(r) : r \in {Assembler_next(a)}} : TRUE

Assembler_assemble(a) == assemble_from(a)


\* ---------------------------------------------------------- disassembler
\* shared/src/program.rs. ProgramParser::step names Operation::JmpEq, JmpNe,
\* JmpGt, JmpLt, JmpGte, JmpLte and Cmp, which instruction.rs does not declare
\* and no word decodes to: these arms take no value.

Action_new(operation_, operands_) == [operation |-> operation_, operands |-> operands_]

ProgramParser_new(bytes_) == [bytes |-> bytes_, pc |-> 0, actions |-> <<>>, res |-> "Ok"]

\* self.pc += 1; self.bytes.get(self.pc - 1): the word, Nothing for None
ProgramParser_advance(pp) ==
    Returns([pp EXCEPT !.pc = @ + 1],
            IF pp.pc < Len(pp.bytes) THEN pp.bytes[pp.pc + 1] ELSE Nothing)

collect_zero(pp, opcode) == Returns(pp, Action_new(OpCode_operation(opcode), <<>>))

NoAction == Action_new(NoEnum, <<>>)

\* the operand of collect_one: self.advance().unwrap()
collect_one_operand(opcode, r) ==
    IF r.value = Nothing THEN Returns([r.a EXCEPT !.res = "panic"], NoAction)
    ELSE Returns(r.a, Action_new(OpCode_operation(opcode),
                                 <<Operand_new(r.value, OpCode_variants(opcode)[1])>>))

collect_one(pp, opcode) ==
    IF OpCode_variants(opcode) = Nothing
    THEN Returns([pp EXCEPT !.res = "Failed to collect variants"], NoAction)
    ELSE collect_one_operand(opcode, ProgramParser_advance(pp))

\* the operands of collect_two
collect_two_second(opcode, first, r) ==
    IF r.value = Nothing THEN Returns([r.a EXCEPT !.res = "panic"], NoAction)
    ELSE Returns(r.a, Action_new(OpCode_operation(opcode),
                                 <<Operand_new(first, OpCode_variants(opcode)[1]),
                                   Operand_new(r.value, OpCode_variants(opcode)[2])>>))

collect_two_first(opcode, r) ==
    IF r.value = Nothing THEN Returns([r.a EXCEPT !.res = "panic"], NoAction)
    ELSE collect_two_second(opcode, r.value, ProgramParser_advance(r.a))

collect_two(pp, opcode) ==
    IF OpCode_variants(opcode) = Nothing
    THEN Returns([pp EXCEPT !.res = "Failed to collect variants"], NoAction)
    ELSE collect_two_first(opcode, ProgramParser_advance(pp))

\* the match of step on the operation of the opcode
step_match(r) ==
    IF r.value = Nothing THEN Returns([r.a EXCEPT !.res = "djawjdakwd"], NoAction)
    ELSE IF OpCode_operation(r.value) = NoEnum
    THEN Returns([r.a EXCEPT !.res = "panic"], NoAction)
    ELSE IF OpCode_operation(r.value) \in {"Nop", "Pop", "Add", "Mult", "Sub", "Div", "Ret"}
    THEN collect_zero(r.a, r.value)
    ELSE IF OpCode_operation(r.value) \in {"Push", "Jmp", "Dup", "Call"}
    THEN collect_one(r.a, r.value)
    ELSE IF OpCode_operation(r.value) = "Mov" THEN collect_two(r.a, r.value)
    ELSE Returns([r.a EXCEPT !.res = "todo"], NoAction)

ProgramParser_step(pp) == step_match(ProgramParser_advance(pp))

RECURSIVE ProgramParser_parse(_)
\* self.actions.push(action)
parse_push(r) ==
    IF r.a.res # "Ok" THEN r.a
    ELSE CHOOSE res \in {ProgramParser_parse(pp) :
                             pp \in {[r.a EXCEPT !.actions = Append(@, r.value)]}} : TRUE

ProgramParser_parse(pp) ==
    IF pp.res # "Ok" \/ ~(pp.pc < Len(pp.bytes)) THEN pp
    ELSE CHOOSE res \in {parse_push(r) : r \in {ProgramParser_step(pp)}} : TRUE

\* Operation::to_asm, as characters
Operation_to_asm(operation) ==
    CASE operation = "Nop" -> <<"n", "o", "p">>
      [] operation = "Push" -> <<"p", "u", "s", "h">>
      [] operation = "Pop" -> <<"p", "o", "p">>
      [] operation = "Mov" -> <<"m", "o", "v">>
      [] operation = "Jmp" -> <<"j", "m", "p">>
      [] operation = "Dup" -> <<"d", "u", "p">>
      [] operation = "Add" -> <<"a", "d", "d">>
      [] operation = "Sub" -> <<"s", "u", "b">>
      [] operation = "Mult" -> <<"m", "u", "l", "t">>
      [] operation = "Div" -> <<"d", "i", "v">>
      [] operation = "JmpIf" -> <<"j", "m", "p", "_", "i", "f">>
      [] operation = "CmpEq" -> <<"c", "m", "p", "_", "e", "q">>
      [] operation = "CmpNe" -> <<"c", "m", "p", "_", "n", "e">>
      [] operation = "CmpGt" -> <<"c", "m", "p", "_", "g", "t">>
      [] operation = "CmpLt" -> <<"c", "m", "p", "_", "l", "t">>
      [] operation = "CmpGte" -> <<"c", "m", "p", "_", "g", "t", "e">>
      [] operation = "CmpLte" -> <<"c", "m", "p", "_", "l", "t", "e">>
      [] operation = "Mod" -> <<"m", "o", "d">>
      [] operation = "Call" -> <<"c", "a", "l", "l">>
      [] operation = "Ret" -> <<"r", "e", "t">>
      [] operation = "Not" -> <<"n", "o", "t">>

\* the remainder of the bytes before the i-th of a word by ten
RECURSIVE rem_ten(_, _)
rem_ten(value, i) ==
    IF i = 1 THEN 0 ELSE (rem_ten(value, i - 1) * 256 + value[i - 1]) % 10

\* value / 10, byte by byte from the most significant
div_ten(value) ==
    [i \in 1..WordBytes |-> (rem_ten(value, i) * 256 + value[i]) \div 10]

\* format!("{}", value) of a usize: its decimal digits
RECURSIVE usize_to_string(_)
usize_to_string(value) ==
    IF Lt(value, W(10)) THEN <<DigitChars[N(value) + 1]>>
    ELSE usize_to_string(div_ten(value))
             \o <<DigitChars[rem_ten(value, WordBytes + 1) + 1]>>

\* the text so far with the text of one more part behind it
Written(text, part) ==
    IF text.res # "Ok" THEN text
    ELSE [res |-> part.res, chars |-> text.chars \o part.chars]

Text(chars_) == [res |-> "Ok", chars |-> chars_]

\* NativeFunctions::from_usize(value).unwrap().to_string().unwrap()
NativeFunctions_to_string(value) ==
    IF value = W(NativeFunctions_Print) THEN Text(<<"p", "r", "i", "n", "t">>)
    ELSE IF value = W(NativeFunctions_Exit) THEN Text(<<"e", "x", "i", "t">>)
    ELSE [res |-> "panic", chars |-> <<>>]

\* Operand::format; the match has no arm for Variant::StackRelative
Operand_format(operand) ==
    CASE operand.variant = "Stack" ->
            [res |-> "Ok", chars |-> <<"s", "(">> \o usize_to_string(operand.value) \o <<")">>]
      [] operand.variant = "Register" ->
            [res |-> "Ok", chars |-> <<"r", "(">> \o usize_to_string(operand.value) \o <<")">>]
      [] operand.variant = "Direct" ->
            [res |-> "Ok", chars |-> usize_to_string(operand.value)]
      [] operand.variant = "Native" ->
            [res |-> NativeFunctions_to_string(operand.value).res,
             chars |-> <<"$">> \o NativeFunctions_to_string(operand.value).chars]
      [] operand.variant \in {"None", "Indirect"} -> [res |-> "Ok", chars |-> <<>>]
      [] OTHER -> [res |-> "no arm", chars |-> <<>>]

\* operands.iter().map(|o| o.format()).collect().join(", "), from the i-th on
RECURSIVE operands_join(_, _, _)
operands_join(operands, i, text) ==
    IF i > Len(operands) \/ text.res # "Ok" THEN text
    ELSE CHOOSE res \in
             {operands_join(operands, i + 1, t) :
                 t \in {Written(IF i = 1 THEN text ELSE Written(text, Text(<<",", " ">>)),
                                Operand_format(operands[i]))}} : TRUE

\* Action::format: format!("{} {}", to_asm, operands)
Action_format(action) ==
    operands_join(action.operands, 1, Text(Operation_to_asm(action.operation) \o <<" ">>))

\* Program::to_string: "  {}\n" of every action, from the i-th on
RECURSIVE Program_to_string_from(_, _, _)
Program_to_string_from(actions, i, text) ==
    IF i > Len(actions) \/ text.res # "Ok" THEN text
    ELSE CHOOSE res \in
             {Program_to_string_from(actions, i + 1, t) :
                 t \in {Written(Written(Written(text, Text(<<" ", " ">>)),
                                        Action_format(actions[i])),
                                Text(<<"\n">>))}} : TRUE

Program_to_string(actions) == Program_to_string_from(actions, 1, Text(<<>>))

\* the word vectors the assembler produces from the sources
AssembledPrograms ==
    {Assembler_assemble(Assembler_new(t)).program :
        t \in {u \in AsmSources : Assembler_assemble(Assembler_new(u)).res = "Ok"}}

\* disassemble: ProgramParser::new(program).parse().unwrap(), program.to_string()
Disassemble ==
    /\ dis.state = "program"
    /\ \E pp \in {ProgramParser_parse(ProgramParser_new(dis.bytes))} :
           dis' = [dis EXCEPT !.state = "disassembled",
                              !.parsed = [res |-> pp.res, actions |-> pp.actions],
                              !.text = IF pp.res = "Ok" THEN Program_to_string(pp.actions)
                                       ELSE @]
    /\ UNCHANGED <<program, pc, stack, call_stack, register, output, status, steps,
                   overflow_checks, max, ir, last, gen, opc, file, asm, scope, budget>>

\* the text is assembled again: Lexer::new_from_path, Assembler::new, assemble
Reassemble ==
    /\ dis.state = "disassembled"
    /\ dis.text.res = "Ok"
    /\ \E a \in {Assembler_assemble(Assembler_new(Lexer_new_from_path(dis.text.chars)))} :
           dis' = [dis EXCEPT !.state = "reassembled",
                              !.again = [res |-> a.res, program |-> a.program]]
    /\ UNCHANGED <<program, pc, stack, call_stack, register, output, status, steps,
                   overflow_checks, max, ir, last, gen, opc, file, asm, scope, budget>>

InitDis ==
    /\ NoRun
    /\ overflow_checks = TRUE
    /\ opc = NoCode
    /\ file = NoFile
    /\ asm = NoAsm
    /\ dis \in {[NoDis EXCEPT !.state = "program", !.bytes = p] : p \in AssembledPrograms}
    /\ scope = NoScope
    /\ budget = NoBudget

NextDis == Disassemble \/ Reassemble

SpecDis == InitDis /\ [][NextDis]_vars



\* ------------------------------------------------------------ the scopes
\* The calls the code generator makes on its VariableStack and its depth
\* counter, one at a time, on a CodeGen that has generated nothing yet. With
\* the CodeGen the state records the latest call, what get returned, the
\* CodeGen before the call, and for the checks: born, for every entry of
\* every layer the location it was created with and the number of
\* increment_relative less decrement_relative calls since; marks, for every
\* layer the layers and the depth counter at its enter and the depth changes
\* since; left, the mark of the layer left last.

ScopeNames == {"a", "b"}

ScopeSlots == {Zero, W(1), MaxWord}

ScopeModes == {"Stack", Variant_StackAbsoulute}

NoCall == [op |-> "new", name |-> "", slot |-> Zero, mode |-> "None"]

NoMark == [stack |-> <<>>, stack_size |-> Zero, net |-> 0]

\* every delta of born moved by d
BornShift(born, d) ==
    [i \in 1..Len(born) |-> [j \in 1..Len(born[i]) |-> [born[i][j] EXCEPT !.delta = @ + d]]]

\* every net of marks moved by d
MarksShift(marks, d) == [i \in 1..Len(marks) |-> [marks[i] EXCEPT !.net = @ + d]]

Called(cg_, op_, name_, slot_, mode_, got_, born_, marks_, left_) ==
    [state |-> "stack", cg |-> cg_,
     call |-> [op |-> op_, name |-> name_, slot |-> slot_, mode |-> mode_],
     got |-> got_, before |-> scope.cg, born |-> born_, marks |-> marks_, left |-> left_,
     calls |-> scope.calls + 1]

ScopeGuard ==
    /\ scope.state = "stack"
    /\ ~Failed(scope.cg)
    /\ scope.calls < MaxCalls

ScopeFrame ==
    UNCHANGED <<program, pc, stack, call_stack, register, output, status, steps,
                overflow_checks, max, ir, last, gen, opc, file, asm, dis, budget>>

\* self.variable_stack.enter(), of generate_block
ScopeEnter ==
    /\ ScopeGuard
    /\ Len(scope.cg.variable_stack.stack) < MaxLayers
    /\ scope' = Called(variable_stack_enter(scope.cg), "enter", "", Zero, "None", NoVar,
                       Append(scope.born, <<>>),
                       Append(scope.marks, [stack |-> scope.cg.variable_stack.stack,
                                            stack_size |-> scope.cg.stack_size,
                                            net |-> 0]),
                       scope.left)
    /\ ScopeFrame

\* self.variable_stack.leave()?, of generate_block
ScopeLeave ==
    /\ ScopeGuard
    /\ \E cg \in {variable_stack_leave(scope.cg)} :
           scope' = IF Failed(cg)
                    THEN Called(cg, "leave", "", Zero, "None", NoVar, scope.born,
                                scope.marks, scope.left)
                    ELSE Called(cg, "leave", "", Zero, "None", NoVar,
                                BornShift(Front(scope.born),
                                          0 - N(Last(scope.cg.variable_stack.items))),
                                Front(scope.marks), Last(scope.marks))
    /\ ScopeFrame

\* self.variable_stack.create(name, slot, mode)?
ScopeCreate ==
    /\ ScopeGuard
    /\ \E name \in ScopeNames, slot \in ScopeSlots, mode \in ScopeModes :
           \E cg \in {variable_stack_create(scope.cg, name, slot, mode)} :
               scope' = Called(cg, "create", name, slot, mode, NoVar,
                               IF Failed(cg) THEN scope.born
                               ELSE [scope.born EXCEPT ![Len(scope.born)] =
                                         Append(@, [slot |-> slot, delta |-> 0])],
                               scope.marks, scope.left)
    /\ ScopeFrame

\* self.variable_stack.get(name)
ScopeGet ==
    /\ ScopeGuard
    /\ \E name \in ScopeNames :
           scope' = Called(scope.cg, "get", name, Zero, "None",
                           get(scope.cg.variable_stack, name),
                           scope.born, scope.marks, scope.left)
    /\ ScopeFrame

\* a depth increment: stack_increce, and stack_push behind its two words
ScopePush ==
    /\ ScopeGuard
    /\ \E cg \in {stack_increce(scope.cg)} :
           scope' = IF Failed(cg)
                    THEN Called(cg, "push", "", Zero, "None", NoVar, scope.born,
                                scope.marks, scope.left)
                    ELSE Called(cg, "push", "", Zero, "None", NoVar,
                                BornShift(scope.born, 1), MarksShift(scope.marks, 1),
                                scope.left)
    /\ ScopeFrame

\* a depth decrement: stack_lower, and stack_pop behind its word
ScopePop ==
    /\ ScopeGuard
    /\ \E cg \in {stack_lower(scope.cg)} :
           scope' = IF Failed(cg)
                    THEN Called(cg, "pop", "", Zero, "None", NoVar, scope.born,
                                scope.marks, scope.left)
                    ELSE Called(cg, "pop", "", Zero, "None", NoVar,
                                BornShift(scope.born, 0 - 1), MarksShift(scope.marks, 0 - 1),
                                scope.left)
    /\ ScopeFrame

InitScope ==
    /\ NoRun
    /\ overflow_checks \in BOOLEAN
    /\ opc = NoCode
    /\ file = NoFile
    /\ asm = NoAsm
    /\ dis = NoDis
    /\ scope = [state |-> "stack", cg |-> CodeGen_new(overflow_checks), call |-> NoCall,
                got |-> NoVar, before |-> CodeGen_new(overflow_checks), born |-> <<>>,
                marks |-> <<>>, left |-> NoMark, calls |-> 0]
    /\ budget = NoBudget

NextScope == ScopeEnter \/ ScopeLeave \/ ScopeCreate \/ ScopeGet \/ ScopePush \/ ScopePop

SpecScope == InitScope /\ [][NextScope]_vars


\* ------------------------------------------------- the loop of run_max
\* budget.steps and budget.max are run_max's `steps` and `max`, words as in
\* the source; budget.start is the value of `steps` in the first state,
\* budget.turns the turns of the loop that have counted since then. The
\* variable steps counts the calls of step since the first state, and max is
\* NoMax: the budget of this loop is budget.max.

\* a program that jumps to its own first word: a turn of the loop leaves the
\* vm as VM::new made it, so the loop is in that state of the vm at every
\* value of `steps` up to max
SelfLoop == <<OpCode_new("Jmp", <<"Direct", "None", "None">>), Zero>>

\* steps += 1; if steps > max { break }
RunMaxCount ==
    /\ budget.state = "loop"
    /\ status = "running"
    /\ budget.turns = steps
    /\ steps < MaxSteps
    /\ LET counted == wrapping_add(budget.steps, W(1))
       IN IF add_overflows(budget.steps, W(1)) /\ overflow_checks
          THEN /\ budget' = [budget EXCEPT !.state = "overflow"]
               /\ status' = "panic"
               /\ last' = "Overflow"
          ELSE IF Lt(budget.max, counted)
          THEN /\ budget' = [budget EXCEPT !.state = "returned", !.steps = counted]
               /\ status' = "stopped"
               /\ last' = "Break"
          ELSE /\ budget' = [budget EXCEPT !.steps = counted, !.turns = @ + 1]
               /\ UNCHANGED <<status, last>>
    /\ UNCHANGED <<program, pc, stack, call_stack, register, output, steps,
                   overflow_checks, max, ir, gen, opc, file, asm, dis, scope>>

\* if !self.step() { break }
RunMaxStep ==
    /\ budget.state = "loop"
    /\ budget.turns = steps + 1
    /\ Step

RunMaxBudgets == {Zero, W(MaxBudget), MaxWord}

InitRunMax ==
    /\ program \in VMPrograms
    /\ pc = VM_new(program, Zero).pc
    /\ stack = VM_new(program, Zero).stack
    /\ call_stack = VM_new(program, Zero).call_stack
    /\ register = VM_new(program, Zero).register
    /\ output = <<>>
    /\ status = "running"
    /\ steps = 0
    /\ overflow_checks \in BOOLEAN
    /\ max = NoMax
    /\ ir = Dispatch(VMSelf)
    /\ last = NoStep
    /\ gen = NoGen
    /\ opc = NoCode
    /\ file = NoFile
    /\ asm = NoAsm
    /\ dis = NoDis
    /\ scope = NoScope
    /\ \E m \in RunMaxBudgets :
       \E s \in IF program = SelfLoop /\ m = MaxWord
                THEN {Zero, wrapping_sub(MaxWord, W(1))} ELSE {Zero} :
           budget = [state |-> "loop", steps |-> s, max |-> m, start |-> s, turns |-> 0]

NextRunMax == RunMaxCount \/ RunMaxStep

SpecRunMax == InitRunMax /\ [][NextRunMax]_vars


\* the operation field of a word (its upper four bytes) is a discriminant
OperationFieldKnown(w) == w[1] = 0 /\ w[2] = 0 /\ w[3] = 0 /\ w[4] <= 20

\* C11: decoding the word OpCode::new made of an operation and three variants
\* succeeds and gives back that operation and those variants.
C11_OpcodeRoundTrip ==
    (opc.state = "split" /\ opc.operation # NoEnum)
        => opc.split = <<opc.operation, opc.variants>>

C11_Witness ==
    /\ opc.state = "split"
    /\ opc.operation = "Not"
    /\ opc.variants = <<"Native", "StackRelative", "Native">>
    /\ opc.split = <<"Not", <<"Native", "StackRelative", "Native">>>>

\* C12: a word whose operation field (the word shifted right by 32 bits) is not
\* in 0..=20 has no operation, and split of it is None.
C12_UnknownOperationIsNone ==
    (opc.state = "split" /\ ~OperationFieldKnown(opc.word))
        => (OpCode_operation(opc.word) = NoEnum /\ opc.split = Nothing)

C12_Witness ==
    /\ opc.state = "split"
    /\ opc.word = <<0, 0, 0, 21, 0, 0, 0, 0>>
    /\ opc.split = Nothing

\* C13: split fails on every word in which one of the three variant bytes holds
\* a value above 6.
C13_BadVariantByteFails ==
    (opc.state = "split" /\ (opc.word[6] > 6 \/ opc.word[7] > 6 \/ opc.word[8] > 6))
        => opc.split = Nothing

\* a variant byte above 15 whose low four bits are a variant has been decoded
C13_Witness ==
    /\ opc.state = "split"
    /\ opc.word = <<0, 0, 0, 1, 0, 18, 0, 0>>
    /\ opc.split = <<"Push", <<"Direct", "None", "None">>>>

\* the word whose bytes, most significant first, are bytes 8k+1 .. 8k+8 of b
GroupOf(b, k) == SubSeq(b, WordBytes * k + 1, WordBytes * k + WordBytes)

\* C14: decode of the encoding of a word sequence succeeds and gives back the
\* same words in the same order (the empty sequence included).
C14_ContainerRoundTrip ==
    (file.state = "decoded" /\ file.from = "encoded")
        => file.decoded = [res |-> "Ok", program |-> file.data]

C14_Witness ==
    /\ file.state = "decoded"
    /\ file.from = "encoded"
    /\ file.data = <<<<1, 2, 3, 4, 5, 6, 7, 8>>, <<128, 0, 0, 0, 0, 0, 255, 0>>>>
    /\ Len(file.bytes) = 16
    /\ file.decoded.program = file.data

\* C15: decode of n bytes, n not a multiple of 8, returns without error the
\* floor(n / 8) words of the leading 8-byte groups, each read most significant
\* byte first, and drops the n mod 8 trailing bytes.
C15_TrailingBytesDropped ==
    (file.state = "decoded" /\ Len(file.bytes) % WordBytes # 0)
        => /\ file.decoded.res = "Ok"
           /\ Len(file.decoded.program) = Len(file.bytes) \div WordBytes
           /\ \A k \in 1..Len(file.decoded.program) :
                  file.decoded.program[k] = GroupOf(file.bytes, k - 1)

C15_Witness ==
    /\ file.state = "decoded"
    /\ file.bytes = <<1, 2, 3, 4, 5, 6, 7, 8, 128, 0, 0>>
    /\ file.decoded = [res |-> "Ok", program |-> <<<<1, 2, 3, 4, 5, 6, 7, 8>>>>]

\* the operation of a mnemonic that takes a label
MnemonicOperation(mnemonic) ==
    CASE mnemonic = "jmp" -> "Jmp" [] mnemonic = "jmp_if" -> "JmpIf"
      [] mnemonic = "call" -> "Call"

\* the offsets at which the source defines the label
OffsetsOf(label) ==
    {asm.defs[i].offset : i \in {j \in 1..Len(asm.defs) : asm.defs[j].name = label}}

\* the index in the program of the immediate of a reference
ImmediateOf(ref) == ref.offset + 2

\* C16: after a successful assemble every jmp, jmp_if and call of a label is its
\* opcode word with variant Direct followed by the address of the label, the
\* label defined before or after; the patch of the forward references changes
\* no word but those immediates.
C16_LabelReferencesEncoded ==
    asm.state = "assembled" =>
        /\ \A i \in 1..Len(asm.refs) :
               Cardinality(OffsetsOf(asm.refs[i].label)) = 1 =>
                   /\ asm.a.program[asm.refs[i].offset + 1] =
                          OpCode_new(MnemonicOperation(asm.refs[i].mnemonic),
                                     <<"Direct", "None", "None">>)
                   /\ \E o \in OffsetsOf(asm.refs[i].label) :
                          asm.a.program[ImmediateOf(asm.refs[i])] = W(o)
        /\ \A k \in 1..Len(asm.a.program) :
               asm.a.program[k] # asm.unpatched[k] =>
                   \E i \in 1..Len(asm.refs) : k = ImmediateOf(asm.refs[i])

\* a forward call has been patched and its opcode word is no longer a Call
C16_Witness ==
    /\ asm.state = "assembled"
    /\ asm.source = LabelRef("call", "a") \o LabelDef("a") \o <<Id("ret"), EoF>>
    /\ asm.unpatched = <<OpCode_new("Call", <<"Direct", "None", "None">>), Zero,
                         OpCode_new("Ret", NoVariants)>>
    /\ asm.a.program = <<W(2), Zero, OpCode_new("Ret", NoVariants)>>

\* the source refers to a label it does not define
UndefinedReference ==
    \E i \in 1..Len(asm.refs) : OffsetsOf(asm.refs[i].label) = {}

\* C17: when parsing has ended and a referenced label was never defined,
\* assemble fails with the unknown label error and returns no program; it
\* succeeds only when every unresolved reference names a defined label.
C17_UndefinedLabelFails ==
    asm.ended =>
        /\ UndefinedReference =>
               /\ asm.state = "failed"
               /\ asm.a.res = "Couldn't find label"
               /\ ~asm.result.some
               /\ status = "no program"
        /\ asm.state = "assembled" =>
               \A i \in 1..Len(asm.a.unresolved_labels) :
                   OffsetsOf(asm.a.unresolved_labels[i].label) # {}

C17_Witness ==
    /\ asm.ended
    /\ asm.source = LabelRef("jmp", "a") \o LabelDef("b") \o <<EoF>>
    /\ asm.state = "failed"
    /\ asm.a.res = "Couldn't find label"

\* the mnemonic table
MnemonicTable ==
    {"mov", "push", "dup", "add", "sub", "mult", "div", "mod", "jmp", "jmp_if",
     "cmp_eq", "cmp_ne", "cmp_gt", "cmp_lt", "cmp_gte", "cmp_lte", "call", "ret",
     "not", "swap", "pop", "nop"}

\* C18: the assembler takes every mnemonic of the table and rejects every
\* other identifier with the unknown instruction error; nop gives the Nop
\* opcode word and no immediate.
C18_MnemonicTableAccepted ==
    asm.item.mnemonic # "" =>
        /\ asm.item.mnemonic \in MnemonicTable <=> asm.item.res # "Unknown instruction"
        /\ asm.item.mnemonic = "nop" =>
               /\ asm.item.res = "Ok"
               /\ asm.item.words = <<OpCode_new("Nop", NoVariants)>>

C18_Witness ==
    /\ asm.item.mnemonic = "nop"
    /\ asm.item.res = "Unknown instruction"
    /\ asm.state = "failed"

\* C19: in a successful run of the assembler no label name has been defined
\* twice.
C19_LabelsDefinedOnce ==
    asm.state = "assembled" =>
        \A i, j \in 1..Len(asm.defs) :
            asm.defs[i].name = asm.defs[j].name => i = j

\* a second definition has replaced the address of the first
C19_Witness ==
    /\ asm.state = "assembled"
    /\ asm.defs = <<[name |-> "a", offset |-> 0], [name |-> "a", offset |-> 2]>>
    /\ asm.a.labels = <<[name |-> "a", addr |-> W(2)]>>

\* C20: the program assembled from S4, run from entry 0, prints 8 and nothing
\* else, and stops by the native Exit.
C20_S4PrintsEight ==
    asm.source = S4 \o <<EoF>> =>
        /\ asm.state # "failed"
        /\ status # "panic"
        /\ output \in {<<>>, <<W(8)>>}
        /\ asm.state = "assembled" =>
               program = <<OpCode_new("Push", <<"Direct", "None", "None">>), W(5),
                           OpCode_new("Push", <<"Direct", "None", "None">>), W(3),
                           OpCode_new("Add", NoVariants),
                           OpCode_new("Call", <<"Native", "None", "None">>),
                           W(NativeFunctions_Print),
                           OpCode_new("Call", <<"Native", "None", "None">>),
                           W(NativeFunctions_Exit)>>
        /\ status = "stopped" =>
               /\ output = <<W(8)>>
               /\ last = "Call"
               /\ program[N(pc)] = W(NativeFunctions_Exit)
               /\ steps = 5

C20_Witness ==
    /\ asm.source = S4 \o <<EoF>>
    /\ status = "stopped"
    /\ output = <<W(8)>>
    /\ last = "Call"
\* the word vector S4 of the assembler's sources assembles to
S4Program == Assembler_assemble(Assembler_new(S4 \o <<EoF>>)).program

\* C21: every word vector the assembler produces is decoded whole by the
\* disassembler without a failure, its instructions are printed, and the
\* text assembles again to the same word vector.
C21_DisassemblyIdentity ==
    /\ dis.state \in {"disassembled", "reassembled"}
           => dis.parsed.res = "Ok" /\ dis.text.res = "Ok"
    /\ dis.state = "reassembled" => dis.again.res = "Ok" /\ dis.again.program = dis.bytes

\* an assembled word vector on which the disassembler stops in todo!()
C21_Witness ==
    /\ dis.state = "disassembled"
    /\ dis.bytes \in AssembledPrograms
    /\ dis.parsed.res = "todo"


\* the layers of a VariableStack that define a name
DefiningLayers(vs, name) ==
    {i \in 1..Len(vs.stack) : LayerFind(vs.stack[i], name, 1) # 0}

\* the entry of a name in the i-th layer, as get returns it
EntryOf(vs, name, i) ==
    [some |-> TRUE, location |-> vs.stack[i][LayerFind(vs.stack[i], name, 1)].location,
     variant |-> vs.stack[i][LayerFind(vs.stack[i], name, 1)].variant]

Greatest(S) == CHOOSE i \in S : \A j \in S : j <= i

\* C22: get(name) returns the entry of the innermost layer that defines the
\* name, and none only when no layer defines it.
C22_GetInnermost ==
    scope.state = "stack" /\ scope.call.op = "get"
        => IF DefiningLayers(scope.cg.variable_stack, scope.call.name) = {}
           THEN scope.got = NoVar
           ELSE scope.got = EntryOf(scope.cg.variable_stack, scope.call.name,
                                    Greatest(DefiningLayers(scope.cg.variable_stack,
                                                            scope.call.name)))

\* a name defined in two layers with different entries: get returned the
\* entry of the outer layer
C22_Witness ==
    /\ scope.state = "stack" /\ scope.call.op = "get"
    /\ DefiningLayers(scope.cg.variable_stack, scope.call.name) = {1, 2}
    /\ EntryOf(scope.cg.variable_stack, scope.call.name, 1)
           # EntryOf(scope.cg.variable_stack, scope.call.name, 2)
    /\ scope.got = EntryOf(scope.cg.variable_stack, scope.call.name, 1)

\* the name of the latest create is in the top layer of the stack before it
InTopBefore ==
    /\ Len(scope.before.variable_stack.stack) > 0
    /\ LayerFind(Last(scope.before.variable_stack.stack), scope.call.name, 1) # 0

\* C23: create fails with the error of a redefinition exactly when the name
\* is in the top layer, and then changes no layer and no counter; with the
\* name in outer layers only, or in none, it succeeds and adds the entry to
\* the top layer alone.
C23_CreateRedefined ==
    scope.state = "stack" /\ scope.call.op = "create"
        => /\ scope.cg.res = "Err" <=> InTopBefore
           /\ InTopBefore => scope.cg.variable_stack = scope.before.variable_stack
           /\ Len(scope.before.variable_stack.stack) > 0 /\ ~InTopBefore
                  => /\ scope.cg.res = "Ok"
                     /\ scope.cg.variable_stack.items = scope.before.variable_stack.items
                     /\ Front(scope.cg.variable_stack.stack)
                            = Front(scope.before.variable_stack.stack)
                     /\ Last(scope.cg.variable_stack.stack)
                            = Append(Last(scope.before.variable_stack.stack),
                                     [name |-> scope.call.name,
                                      location |-> scope.call.slot,
                                      variant |-> scope.call.mode])

\* a create of a name that only the outer layer defines has succeeded
C23_Witness ==
    /\ scope.state = "stack" /\ scope.call.op = "create"
    /\ DefiningLayers(scope.before.variable_stack, scope.call.name) = {1}
    /\ DefiningLayers(scope.cg.variable_stack, scope.call.name) = {1, 2}
    /\ scope.cg.res = "Ok"

\* a word moved by d, modulo 2^64
RECURSIVE Moved(_, _)
Moved(w, d) ==
    IF d = 0 THEN w
    ELSE IF d > 0 THEN Moved(wrapping_add(w, W(1)), d - 1)
    ELSE Moved(wrapping_sub(w, W(1)), d + 1)

\* the latest call moved the entries of the layers by d: the Stack entries,
\* and no other, and of the counters the top one alone
ShiftedBy(d) ==
    /\ Len(scope.cg.variable_stack.stack) = Len(scope.before.variable_stack.stack)
    /\ \A i \in 1..Len(scope.cg.variable_stack.stack) :
           /\ Len(scope.cg.variable_stack.stack[i]) = Len(scope.before.variable_stack.stack[i])
           /\ \A j \in 1..Len(scope.cg.variable_stack.stack[i]) :
                  scope.cg.variable_stack.stack[i][j]
                      = IF scope.before.variable_stack.stack[i][j].variant = "Stack"
                        THEN [scope.before.variable_stack.stack[i][j]
                                 EXCEPT !.location = Moved(@, d)]
                        ELSE scope.before.variable_stack.stack[i][j]
    /\ Front(scope.cg.variable_stack.items) = Front(scope.before.variable_stack.items)
    /\ Last(scope.cg.variable_stack.items)
           = Moved(Last(scope.before.variable_stack.items), d)

\* every entry is where it was created, moved by the increments less the
\* decrements since if it is a Stack entry
EntriesTrackDepth ==
    \A i \in 1..Len(scope.cg.variable_stack.stack) :
        \A j \in 1..Len(scope.cg.variable_stack.stack[i]) :
            scope.cg.variable_stack.stack[i][j].location
                = IF scope.cg.variable_stack.stack[i][j].variant = "Stack"
                  THEN Moved(scope.born[i][j].slot, scope.born[i][j].delta)
                  ELSE scope.born[i][j].slot

\* the latest call, an increment (up) or a decrement, cannot be done: there
\* is no layer, or the build checks overflow and a Stack entry, the counter
\* of the top layer or the depth counter is at its edge
ShiftFails(up) ==
    \/ Len(scope.before.variable_stack.items) = 0
    \/ /\ scope.before.checks
       /\ \/ ShiftOverflows(scope.before.variable_stack.stack, up)
          \/ Last(scope.before.variable_stack.items) = (IF up THEN MaxWord ELSE Zero)
          \/ scope.before.stack_size = (IF up THEN MaxWord ELSE Zero)

C25_LeaveRestores ==
    scope.state = "stack" /\ scope.call.op = "leave" /\ ~Failed(scope.cg)
            /\ scope.left.net >= 0
        => /\ scope.cg.stack_size = scope.left.stack_size
           /\ scope.cg.variable_stack.stack = scope.left.stack

\* a leave behind increments: the layers that remain, with a Stack entry,
\* are as before the enter and the depth counter is not
C25_Witness ==
    /\ scope.state = "stack" /\ scope.call.op = "leave" /\ ~Failed(scope.cg)
    /\ scope.left.net >= 1
    /\ Len(scope.cg.variable_stack.stack) = 1
    /\ scope.cg.variable_stack.stack = scope.left.stack
    /\ \E j \in 1..Len(scope.cg.variable_stack.stack[1]) :
           scope.cg.variable_stack.stack[1][j].variant = "Stack"
    /\ scope.cg.stack_size # scope.left.stack_size

\* the notes of one kind that generate left
NotesOf(kind_) == {i \in 1..Len(gen.notes) : gen.notes[i].kind = kind_}

\* the immediate word a note is about
NotedWord(i) == gen.program[N(gen.notes[i].location) + 1]

\* functions.get(name) behind generate: the address, Nothing for None
FunctionEntry(name) ==
    IF functions_find(gen.functions, name, 1) = 0 THEN Nothing
    ELSE gen.functions[functions_find(gen.functions, name, 1)].addr

\* generate has returned; it came to the loop over the unresolved list
Returned == gen.state \in {"generated", "Err"}

Resolving ==
    gen.state = "generated" \/ gen.error \in {"Unknown function", "main function not defined"}

\* C26: every Call Direct emitted carries the recorded entry of its function
\* or is in the unresolved list with the offset of its immediate word; after
\* a successful generate every such immediate is the entry of the function
\* named; generate fails with the unknown function error if a recorded name
\* has no definition.
C26_CallsResolved ==
    /\ Returned
           => \A i \in NotesOf("Call") :
                  gen.notes[i].known
                      \/ \E j \in 1..Len(gen.unresolved_function) :
                             gen.unresolved_function[j]
                                 = [name |-> gen.notes[i].name,
                                    location |-> gen.notes[i].location]
    /\ gen.state = "generated"
           => \A i \in NotesOf("Call") : NotedWord(i) = FunctionEntry(gen.notes[i].name)
    /\ Resolving
           /\ (\E j \in 1..Len(gen.unresolved_function) :
                   FunctionEntry(gen.unresolved_function[j].name) = Nothing)
           => gen.state = "Err" /\ gen.error = "Unknown function"

\* generate has succeeded and a call carries an address that is not the
\* entry of the function it names
C26_Witness ==
    /\ gen.state = "generated"
    /\ \E i \in NotesOf("Call") :
           /\ gen.notes[i].known
           /\ FunctionEntry(gen.notes[i].name) # Nothing
           /\ NotedWord(i) # FunctionEntry(gen.notes[i].name)

\* the source defines main
HasMain ==
    \E i \in 1..Len(gen.source.statements) :
        /\ gen.source.statements[i].kind = "FunctionDefinition"
        /\ gen.source.statements[i].name = "main"

\* C27: generate of a Root without a function main fails with the error of
\* the missing main and with no other; with main the entry returned is the
\* length of the program when the definition of main began.
C27_MainRequired ==
    /\ gen.state \notin {"none", "source"} /\ ~HasMain
           => gen.state = "Err" /\ gen.error = "main function not defined"
    /\ gen.state = "generated"
           => /\ gen.entry = FunctionEntry("main")
              /\ N(gen.entry) < Len(gen.program)
                     => gen.points[N(gen.entry) + 1].function = "main"
              /\ N(gen.entry) > 0 => gen.points[N(gen.entry)].function # "main"

\* a Root without main has failed with the error of an unknown function
C27_Witness ==
    gen.state = "Err" /\ ~HasMain /\ gen.error = "Unknown function"

\* C28: in a generated program the target of every forward jump of an If, a
\* While and a FromTo is an offset below the length of the program.
C28_ForwardTargetsInside ==
    gen.state = "generated"
        => \A i \in NotesOf("Jmp") : Lt(NotedWord(i), W(Len(gen.program)))

\* a generated program with a forward jump to its own length
C28_Witness ==
    /\ gen.state = "generated"
    /\ \E i \in NotesOf("Jmp") : NotedWord(i) = W(Len(gen.program))

\* C29, for the callees that are back after one step, the native ones: the
\* Call of a generated program leaves one more word on the operand stack
\* than before, the words below as they were.
C29_CallLeavesReturnValue ==
    [][(/\ gen.state = "generated"
        /\ Executing
        /\ CallNative(NativeFunctions_Print) \/ CallNative(NativeFunctions_Exit)
        /\ status' = "running")
           => /\ Len(stack') = Len(stack) + 1
              /\ SubSeq(stack', 1, Len(stack)) = stack]_vars

\* the print of a generated program has returned and the operand stack has
\* the one word of its argument
C29_Witness ==
    /\ gen.state = "generated" /\ last = "Call" /\ status = "running"
    /\ output # <<>> /\ Len(stack) = 1 /\ output = stack

\* C30: generate of S3 succeeds and the run from the entry it returns prints
\* 55.
C30_S3PrintsSum ==
    gen.source = S3
        => /\ gen.state \in {"source", "generated"}
           /\ status = "stopped" => output = <<W(55)>>

\* generate of S3 has failed: the variable i of the body is unknown
C30_Witness ==
    gen.source = S3 /\ gen.state = "Err" /\ gen.error = "Unknown variable"

\* at the top of a turn on SelfLoop the vm is as VM::new made it
SelfLoopFixed ==
    (budget.state = "loop" /\ program = SelfLoop /\ budget.turns = steps)
        => /\ pc = Zero /\ stack = <<>> /\ call_stack = <<>> /\ output = <<>>
           /\ register = VM_new(program, Zero).register
           /\ status = "running"

\* the instructions run_max has executed are more than the word can hold
ExecutedBeyond == add_overflows(budget.start, W(steps))

\* the instructions run_max has executed, modulo 2^64
Executed == wrapping_add(budget.start, W(steps))

\* C39: run_max(max) executes at most max instructions and then returns,
\* whatever the program; run_max(0) executes none; the break is taken only
\* once the count is above max, so a program that ends earlier ends the loop.
C39_RunMaxBounded ==
    budget.state # "none" =>
        /\ ~ExecutedBeyond
        /\ Le(Executed, budget.max)
        /\ budget.state # "overflow"
        /\ budget.max = Zero => steps = 0
        /\ last = "Break" => Lt(budget.max, budget.steps) /\ status = "stopped"

\* the count has wrapped to 0 and one more instruction has been executed
C39_Witness ==
    /\ budget.state = "loop"
    /\ program = SelfLoop
    /\ budget.max = MaxWord
    /\ budget.start = wrapping_sub(MaxWord, W(1))
    /\ ~overflow_checks
    /\ steps = 2
    /\ budget.steps = Zero
    /\ status = "running"


\* the notes of the forward jumps patched by the jump named name_
JumpNotes(name_) == {i \in NotesOf("Jmp") : gen.notes[i].name = name_}

\* C31: in the code of an If the JmpIf targets the first word after the
\* closing Jmp of the then block, the closing Jmp targets the first word after
\* the else block, and the immediate of the closing Jmp is never fetched as an
\* opcode.
C31_IfJumps ==
    gen.state = "generated" =>
        /\ \A i \in JumpNotes("if_else") :
               \E j \in JumpNotes("if_end") :
                   NotedWord(i) = wrapping_add(gen.notes[j].location, W(1))
        /\ \A j \in JumpNotes("if_end") :
               /\ NotedWord(j) = gen.notes[j].len
               /\ pc # gen.notes[j].location

\* the closing Jmp of an If has been taken and the word to fetch is its own
\* immediate
C31_Witness ==
    /\ gen.state = "generated"
    /\ status = "running"
    /\ last = "Jmp"
    /\ \E j \in JumpNotes("if_end") :
           /\ pc = gen.notes[j].location
           /\ NotedWord(j) = gen.notes[j].location


\* the statements of the body of main in the source
MainBody ==
    LET d == {i \in 1..Len(gen.source.statements) :
                  /\ gen.source.statements[i].kind = "FunctionDefinition"
                  /\ gen.source.statements[i].name = "main"}
    IN IF d = {} THEN <<>>
       ELSE gen.source.statements[CHOOSE i \in d : TRUE].block.statements

\* main is definitions of variables from literals, then the statement kind_
MainEndsWith(kind_) ==
    /\ gen.state = "generated"
    /\ MainBody # <<>>
    /\ Last(MainBody).kind = kind_
    /\ \A i \in 1..(Len(MainBody) - 1) :
           /\ MainBody[i].kind = "VariableDefinition"
           /\ MainBody[i].value.kind = "NumberLiteral"

\* the word at offset k of the generated program
ProgramWord(k) == gen.program[N(k) + 1]

\* C32: the code of an assignment is the value at TOS, Mov[Stack(slot),
\* Stack(0)] and one Pop; executing it leaves the depth of the operand stack
\* as it was before the assignment and removes no variable.
C32_SetKeepsDepth ==
    /\ gen.state = "generated" =>
           \A i \in NotesOf("Mov") :
               /\ NotedWord(i) = op("Mov", variants2("Stack", "Stack"))
               /\ ProgramWord(wrapping_add(gen.notes[i].location, W(2))) = Zero
    /\ (MainEndsWith("VariableSet") /\ last = "Pop")
           => Len(stack) = Len(MainBody) - 1

\* main = { defvar x n; setvar x 1 } has run its Mov and its Pop: the slot
\* of x is gone
C32_Witness ==
    /\ MainEndsWith("VariableSet")
    /\ Len(MainBody) = 2
    /\ Last(MainBody).value.kind = "NumberLiteral"
    /\ last = "Pop"
    /\ status = "running"
    /\ stack = <<>>


\* the value of an expression of the body of main, where every variable is
\* defined once, from a literal
RECURSIVE Value(_)
Value(e) ==
    CASE e.kind = "NumberLiteral" -> e.value
      [] e.kind = "Variable" ->
             MainBody[CHOOSE i \in 1..Len(MainBody) :
                          /\ MainBody[i].kind = "VariableDefinition"
                          /\ MainBody[i].name = e.name].value.value
      [] e.kind = "BinOp" ->
             ArithResult(binop_operation(e.op), Value(e.lhs), Value(e.rhs))

\* the opcode of the binary operation main ends with is the word to execute
AtLastBinOp ==
    /\ MainEndsWith("BinOp")
    /\ status = "running"
    /\ NotesOf("BinOp") # {}
    /\ pc = gen.notes[CHOOSE i \in NotesOf("BinOp") :
                          \A j \in NotesOf("BinOp") : j <= i].location

\* the operands of the statement are arithmetic on literals and on variables
\* that main defines
Valued(e) ==
    \/ e.kind = "NumberLiteral"
    \/ e.kind = "Variable"
    \/ /\ e.kind = "BinOp"
       /\ binop_operation(e.op) \in ArithOps
       /\ e.lhs.kind = "NumberLiteral"
       /\ e.rhs.kind = "NumberLiteral"

\* C33: when the opcode of a binary operation executes, the value of lhs is
\* directly below the value of rhs, which is at TOS, whatever the kinds of lhs
\* and rhs.
C33_LhsBelowRhs ==
    (AtLastBinOp /\ Valued(Last(MainBody).lhs) /\ Valued(Last(MainBody).rhs))
        => /\ Len(stack) >= 2
           /\ Lhs = Value(Last(MainBody).lhs)
           /\ Rhs = Value(Last(MainBody).rhs)

\* x - y is about to subtract with the value of x in both operands
C33_Witness ==
    /\ AtLastBinOp
    /\ Last(MainBody).lhs.kind = "Variable"
    /\ Last(MainBody).rhs.kind = "Variable"
    /\ Lhs = Value(Last(MainBody).lhs)
    /\ Rhs # Value(Last(MainBody).rhs)


\* the source is f = { return p } for a parameter p, and main = { f(1, ..) }
ParamRun == gen.state = "generated" /\ gen.source \in ParamSamples

\* the arguments of the call in main
CallArgs == MainBody[1].args

\* the index among f's parameters of the one f returns
Returned_i ==
    CHOOSE i \in 1..Len(gen.source.statements[1].variables) :
        gen.source.statements[1].variables[i]
            = gen.source.statements[1].block.statements[1].value.name

\* C34: at the call the arguments are on the stack in source order, the last
\* on top, and in the function a reference to parameter i reads the value
\* passed as argument i.
C34_ParametersBound ==
    /\ (ParamRun /\ status = "running" /\ ir = "Call")
           => /\ Len(stack) >= Len(CallArgs)
              /\ SubSeq(stack, Len(stack) - Len(CallArgs) + 1, Len(stack))
                     = [k \in 1..Len(CallArgs) |-> CallArgs[k].value]
    /\ (ParamRun /\ call_stack # <<>> /\ last = "Push")
           => Last(stack) = CallArgs[Returned_i].value

\* f(a, b) = { return a }, called as f(1, 2), has pushed 2 for a
C34_Witness ==
    /\ ParamRun
    /\ gen.source = ParamSample(2, 1)
    /\ call_stack # <<>>
    /\ last = "Push"
    /\ status = "running"
    /\ Last(stack) = W(2)


\* the note of the exit jump of the While main ends with
WhileNote == gen.notes[CHOOSE i \in JumpNotes("while_end") : TRUE]

\* loop_head: the target of the jump back, whose immediate is the last word
\* of the loop
LoopHead == ProgramWord(wrapping_sub(WhileNote.len, W(1)))

\* main is definitions of variables and a While with an empty body
WhileRun ==
    /\ MainEndsWith("While")
    /\ Last(MainBody).then.statements = <<>>
    /\ status = "running"

\* C35: the depth of the operand stack is the same at every arrival at
\* loop_head of a While with a stack-neutral body, and after the exit it is
\* the depth before the loop.
C35_WhileKeepsDepth ==
    WhileRun =>
        /\ pc = LoopHead => Len(stack) = Len(MainBody) - 1
        /\ pc = WhileNote.len => Len(stack) = Len(MainBody) - 1

\* the jump back has been taken once: the negated condition is still on the
\* stack at loop_head
C35_Witness ==
    /\ WhileRun
    /\ pc = LoopHead
    /\ last = "Jmp"
    /\ Len(stack) = Len(MainBody)
    /\ Last(stack) = Zero


\* the calls of self.advance() after the fetch of the opcode, in the arm of
\* step for operation: one in op_push, op_dup, op_jmp and op_call, two in
\* op_mov, none in the others
step_immediates(operation) ==
    CASE operation \in {"Push", "Dup", "Jmp", "JmpIf", "Call"} -> 1
      [] operation = "Mov" -> 2
      [] OTHER -> 0

\* the latest statement of the source was an instruction and the assembler
\* has emitted its words
ItemEmitted == asm.state # "none" /\ asm.item.res = "Ok" /\ asm.item.words # <<>>

\* the VM is about to execute the words of that instruction
AtLastItem ==
    /\ ItemEmitted
    /\ asm.state = "assembled"
    /\ status = "running"
    /\ pc = W(Len(program) - Len(asm.item.words))

\* ProgramParser::step on the words of that instruction alone
ItemParsed == ProgramParser_step(ProgramParser_new(asm.item.words)).a

\* C36: the opcode word of every instruction the assembler emits decodes to
\* one of the 21 operations, with a variant the VM accepts for it, and the VM
\* and the disassembler each consume as many immediates as were emitted.
C36_EmittedIsReadBack ==
    /\ ItemEmitted =>
           /\ OpCode_operation(asm.item.words[1]) # NoEnum
           /\ step_immediates(OpCode_operation(asm.item.words[1])) = Len(asm.item.words) - 1
           /\ ItemParsed.res = "Ok"
           /\ ItemParsed.pc = Len(asm.item.words)
    /\ AtLastItem => ~BadMode

\* `push 1` then `dup`: the VM is at the Dup word, which has no immediate and
\* the variant None
C36_Witness ==
    /\ AtLastItem
    /\ asm.item.mnemonic = "dup"
    /\ ir = "Dup"
    /\ Len(asm.item.words) = 1
    /\ BadMode
    /\ ItemParsed.res = "panic"

\* C37: the parameters of a function are scoped to it: generating two
\* functions that each have a parameter a succeeds, and a statement after
\* the body of f that names the parameter a of f fails with an unknown
\* variable, as the scope lookup no longer returns it.
C37_ParametersScoped ==
    gen.state # "source" =>
        /\ gen.source = SameParameter => gen.state = "generated"
        /\ gen.source = ParameterAfterBody =>
               gen.state = "Err" /\ gen.error = "Unknown variable"

C37_Witness ==
    gen.source = SameParameter /\ gen.state = "Err" /\ gen.error = "VariableStack"

\* the function in whose definition the word at w was emitted
FunctionAt(w) == gen.points[N(w) + 1].function

\* main = { x = 1 } followed by f(a) = { return 1 }: the body of main has no
\* return and no exit
FallThrough == Root(<<Main(<<VariableDefinition("x", NumberLiteral(1))>>), F>>)

\* step takes the run of a generated program from a word of one function to
\* a word of another and goes on
EntersFunction ==
    /\ gen.state = "generated"
    /\ status = "running" /\ status' = "running"
    /\ steps' = steps + 1
    /\ InRange(pc, Len(program)) /\ InRange(pc', Len(program))
    /\ FunctionAt(pc') # FunctionAt(pc)

\* C38: in the run of a generated program control passes from the code of
\* one function to the code of another only by a Call Direct or by the Ret
\* that returns from one: at the end of a function body without return or
\* exit the VM does not go on into the words of the next function.
C38_EnteredByCall == [][EntersFunction => CallDirect \/ ir = "Ret"]_vars

C38_Witness ==
    /\ gen.state = "generated" /\ gen.source = FallThrough
    /\ status = "running" /\ call_stack = <<>> /\ last = "Push"
    /\ pc = FunctionEntry("f") /\ FunctionAt(pc) = "f"
    /\ stack = <<W(1)>>

====
